---- MODULE Spec2Model ----
(***************************************************************************)
(* Model of the astral_ai LLM client call pipeline:                        *)
(*   BaseLLMClient   (src/src/astral_ai/clients/providers/base.py)         *)
(*   OpenAILLMClient (src/src/astral_ai/clients/providers/openai.py)       *)
(* A call is run / run_async / run_structured / run_structured_async.      *)
(* Python values are tagged records [t |-> type, v |-> value], so that     *)
(* None, strings, lists and objects can be told apart as the code does.    *)
(***************************************************************************)
EXTENDS Integers, Sequences, FiniteSets, TLC

VARIABLES clients, calls, lookup

vars == <<clients, calls, lookup>>

(* ------------------------------------------------------------------ *)
(* Bounds                                                              *)
(* ------------------------------------------------------------------ *)

\* Hyphen-separated parts in the suffix of a generated model id.
MaxParts == 3

\* Ids listed under one alias of the generator's input.
MaxIds == 3

\* Longest message list given to the normalizer.
MaxLen == 2

(* ------------------------------------------------------------------ *)
(* Python values                                                       *)
(* ------------------------------------------------------------------ *)

None == [t |-> "NoneType"]

Str(s) == [t |-> "str", v |-> s]

List(s) == [t |-> "list", v |-> s]

Dict(f) == [t |-> "dict", v |-> f]

\* `x is None`
IsNone(x) == x.t = "NoneType"

\* isinstance(x, list) / isinstance(x, dict)
IsList(x) == x.t = "list"

IsDict(x) == x.t = "dict"

\* Python truth value of the values the pipeline tests with `not x`.
Truthy(x) ==
    CASE x.t = "NoneType" -> FALSE
      [] x.t = "list" -> Len(x.v) > 0
      [] x.t = "str" -> x.v # ""
      [] OTHER -> TRUE

\* Outcome of a function that may raise.
Ok(v) == [ok |-> TRUE, value |-> v]

Raise(type, model) == [ok |-> FALSE, error |-> [type |-> type, model |-> model]]

NoError == [type |-> "", model |-> ""]

(* ------------------------------------------------------------------ *)
(* Capability tables (constants/supported_models.py)                   *)
(* ------------------------------------------------------------------ *)

REASONING_EFFORT_SUPPORTED_MODELS ==
    {"o1", "o1-01-10-24", "o1-01-15-24", "o1-12-17-24",
     "o3-mini", "o3-mini-2025-01-31"}

STRUCTURED_OUTPUT_SUPPORTED_MODELS ==
    {"claude-3-5-haiku-20241022", "claude-3-5-sonnet",
     "claude-3-5-sonnet-20241022", "claude-3-haiku", "claude-3-opus",
     "claude-3-opus-20240229", "gpt-4o", "gpt-4o-01-10-24",
     "gpt-4o-01-15-24", "gpt-4o-12-17-24", "o1", "o1-01-10-24",
     "o1-01-15-24", "o1-12-17-24", "o1-mini", "o1-mini-01-10-24",
     "o1-mini-01-15-24", "o1-mini-12-17-24", "o3-mini",
     "o3-mini-2025-01-31"}

FUNCTION_CALL_SUPPORTED_MODELS ==
    {"claude-3-5-haiku-20241022", "claude-3-5-sonnet",
     "claude-3-5-sonnet-20241022", "claude-3-haiku", "claude-3-opus",
     "claude-3-opus-20240229", "gpt-4o", "gpt-4o-01-10-24",
     "gpt-4o-01-15-24", "gpt-4o-12-17-24", "o1", "o1-01-10-24",
     "o1-01-15-24", "o1-12-17-24", "o1-mini", "o1-mini-01-10-24",
     "o1-mini-01-15-24", "o1-mini-12-17-24", "o3-mini",
     "o3-mini-2025-01-31"}

SYSTEM_MESSAGE_SUPPORTED_MODELS ==
    {"claude-3-5-sonnet", "claude-3-5-sonnet-20241022", "claude-3-opus",
     "claude-3-opus-20240229", "gpt-4o", "gpt-4o-01-10-24",
     "gpt-4o-01-15-24", "gpt-4o-12-17-24"}

DEVELOPER_MESSAGE_SUPPORTED_MODELS ==
    {"o1", "o1-01-10-24", "o1-01-15-24", "o1-12-17-24",
     "o3-mini", "o3-mini-2025-01-31"}

ONLY_USER_MESSAGE_SUPPORTED_MODELS ==
    {"claude-3-5-haiku-20241022", "claude-3-haiku", "o1-mini",
     "o1-mini-01-10-24", "o1-mini-01-15-24", "o1-mini-12-17-24"}

\* ModelName = Literal[ModelId, ModelAlias] (typing/models.py): every name
\* of the registry.
ModelName ==
    {"claude-3-5-haiku-20241022", "claude-3-5-sonnet-20241022",
     "claude-3-opus-20240229", "gpt-4o-01-10-24", "gpt-4o-01-15-24",
     "gpt-4o-12-17-24", "o1-01-10-24", "o1-01-15-24", "o1-12-17-24",
     "o1-mini-01-10-24", "o1-mini-01-15-24", "o1-mini-12-17-24",
     "o3-mini-2025-01-31", "claude-3-5-sonnet", "claude-3-haiku",
     "claude-3-opus", "gpt-4o", "o1", "o1-mini", "o3-mini"}

(* ------------------------------------------------------------------ *)
(* Model registry and version resolver (typing/models.py,              *)
(* utils/model_mapping.py)                                             *)
(* ------------------------------------------------------------------ *)

\* The keys of MODEL_DEFINITIONS in the order the dict lists them.
ModelAlias ==
    <<"claude-3-5-sonnet", "claude-3-haiku", "claude-3-opus",
      "gpt-4o", "o1", "o1-mini",
      "o3-mini">>

\* MODEL_DEFINITIONS[alias]; each definition has the keys provider,
\* model_ids and most_recent_model (pricing is not modelled here).
ModelDefinition(alias) ==
    CASE alias = "claude-3-5-sonnet" ->
           [provider |-> "anthropic",
            model_ids |-> <<"claude-3-5-sonnet-20241022">>,
            most_recent_model |-> "claude-3-5-sonnet-20241022"]
    [] alias = "claude-3-haiku" ->
           [provider |-> "anthropic",
            model_ids |-> <<"claude-3-5-haiku-20241022">>,
            most_recent_model |-> "claude-3-5-haiku-20241022"]
    [] alias = "claude-3-opus" ->
           [provider |-> "anthropic",
            model_ids |-> <<"claude-3-opus-20240229">>,
            most_recent_model |-> "claude-3-opus-20240229"]
    [] alias = "gpt-4o" ->
           [provider |-> "openai",
            model_ids |-> <<"gpt-4o-01-15-24", "gpt-4o-12-17-24", "gpt-4o-01-10-24">>,
            most_recent_model |-> "gpt-4o-12-17-24"]
    [] alias = "o1" ->
           [provider |-> "openai",
            model_ids |-> <<"o1-01-15-24", "o1-12-17-24", "o1-01-10-24">>,
            most_recent_model |-> "o1-12-17-24"]
    [] alias = "o1-mini" ->
           [provider |-> "openai",
            model_ids |-> <<"o1-mini-01-15-24", "o1-mini-12-17-24", "o1-mini-01-10-24">>,
            most_recent_model |-> "o1-mini-12-17-24"]
    [] alias = "o3-mini" ->
           [provider |-> "openai",
            model_ids |-> <<"o3-mini-2025-01-31">>,
            most_recent_model |-> "o3-mini-2025-01-31"]

MODEL_DEFINITIONS ==
    [alias \in {ModelAlias[i] : i \in 1..Len(ModelAlias)} |->
        ModelDefinition(alias)]

\* The characters of a model name or token; a name that is already given
\* as its characters is left as it is.
Chars(s) ==
    CASE s = "claude-3-5-sonnet" -> <<"c", "l", "a", "u", "d", "e", "-",
              "3", "-", "5", "-", "s", "o", "n", "n", "e", "t">>
      [] s = "claude-3-haiku" -> <<"c", "l", "a", "u", "d", "e", "-", "3",
              "-", "h", "a", "i", "k", "u">>
      [] s = "claude-3-opus" -> <<"c", "l", "a", "u", "d", "e", "-", "3",
              "-", "o", "p", "u", "s">>
      [] s = "gpt-4o" -> <<"g", "p", "t", "-", "4", "o">>
      [] s = "o1" -> <<"o", "1">>
      [] s = "o1-mini" -> <<"o", "1", "-", "m", "i", "n", "i">>
      [] s = "o3-mini" -> <<"o", "3", "-", "m", "i", "n", "i">>
      [] s = "claude-3-5-haiku-20241022" -> <<"c", "l", "a", "u", "d", "e",
              "-", "3", "-", "5", "-", "h", "a", "i", "k", "u", "-", "2",
              "0", "2", "4", "1", "0", "2", "2">>
      [] s = "claude-3-5-sonnet-20241022" -> <<"c", "l", "a", "u", "d",
              "e", "-", "3", "-", "5", "-", "s", "o", "n", "n", "e", "t",
              "-", "2", "0", "2", "4", "1", "0", "2", "2">>
      [] s = "claude-3-opus-20240229" -> <<"c", "l", "a", "u", "d", "e",
              "-", "3", "-", "o", "p", "u", "s", "-", "2", "0", "2", "4",
              "0", "2", "2", "9">>
      [] s = "gpt-4o-01-10-24" -> <<"g", "p", "t", "-", "4", "o", "-", "0",
              "1", "-", "1", "0", "-", "2", "4">>
      [] s = "gpt-4o-01-15-24" -> <<"g", "p", "t", "-", "4", "o", "-", "0",
              "1", "-", "1", "5", "-", "2", "4">>
      [] s = "gpt-4o-12-17-24" -> <<"g", "p", "t", "-", "4", "o", "-", "1",
              "2", "-", "1", "7", "-", "2", "4">>
      [] s = "o1-01-10-24" -> <<"o", "1", "-", "0", "1", "-", "1", "0",
              "-", "2", "4">>
      [] s = "o1-01-15-24" -> <<"o", "1", "-", "0", "1", "-", "1", "5",
              "-", "2", "4">>
      [] s = "o1-12-17-24" -> <<"o", "1", "-", "1", "2", "-", "1", "7",
              "-", "2", "4">>
      [] s = "o1-mini-01-10-24" -> <<"o", "1", "-", "m", "i", "n", "i",
              "-", "0", "1", "-", "1", "0", "-", "2", "4">>
      [] s = "o1-mini-01-15-24" -> <<"o", "1", "-", "m", "i", "n", "i",
              "-", "0", "1", "-", "1", "5", "-", "2", "4">>
      [] s = "o1-mini-12-17-24" -> <<"o", "1", "-", "m", "i", "n", "i",
              "-", "1", "2", "-", "1", "7", "-", "2", "4">>
      [] s = "o3-mini-2025-01-31" -> <<"o", "3", "-", "m", "i", "n", "i",
              "-", "2", "0", "2", "5", "-", "0", "1", "-", "3", "1">>
      [] s = "gpt-5" -> <<"g", "p", "t", "-", "5">>
      [] s = "gpt-4o-latest" -> <<"g", "p", "t", "-", "4", "o", "-", "l",
              "a", "t", "e", "s", "t">>
      [] OTHER -> s

\* The elements of a list.
Elements(seq) == {seq[i] : i \in 1..Len(seq)}

\* s[n:]
DropFirst(s, n) == IF n >= Len(s) THEN <<>> ELSE SubSeq(s, n + 1, Len(s))

\* s.lstrip("-")
RECURSIVE lstrip(_)
lstrip(s) ==
    IF Len(s) > 0 /\ s[1] = "-" THEN lstrip(Tail(s)) ELSE s

\* s.split("-")
RECURSIVE split(_)
split(s) ==
    IF \A i \in 1..Len(s) : s[i] # "-" THEN <<s>>
    ELSE LET i == CHOOSE j \in 1..Len(s) :
                      s[j] = "-" /\ \A k \in 1..(j - 1) : s[k] # "-"
         IN  <<SubSeq(s, 1, i - 1)>> \o split(SubSeq(s, i + 1, Len(s)))

Digits == <<"0", "1", "2", "3", "4", "5", "6", "7", "8", "9">>

\* s is a non-empty run of digits.
IsDigits(s) == Len(s) > 0 /\ \A i \in 1..Len(s) : s[i] \in Elements(Digits)

\* int accepts a sign in front of the digits. (A part never starts with
\* "-": lstrip and split have removed the hyphens.)
Unsigned(s) == IF Len(s) > 0 /\ s[1] = "+" THEN Tail(s) ELSE s

\* int(s) raises ValueError unless s is an optionally signed, non-empty run
\* of digits (for strings of digits, letters, "+" and "-").
IsInt(s) == IsDigits(Unsigned(s))

RECURSIVE DigitsValue(_)
DigitsValue(s) ==
    IF Len(s) = 0 THEN 0
    ELSE 10 * DigitsValue(SubSeq(s, 1, Len(s) - 1)) +
         (CHOOSE d \in 0..9 : Digits[d + 1] = s[Len(s)])

int(s) == DigitsValue(Unsigned(s))

\* extract_date(model, alias) of utils/model_mapping.py.
extract_date(model, alias) ==
    LET rest == lstrip(DropFirst(Chars(model), Len(Chars(alias))))
        parts == split(rest)
    IN  IF Len(parts) = 3
        THEN IF IsInt(parts[1]) /\ IsInt(parts[2]) /\ IsInt(parts[3])
             THEN LET month == int(parts[1])
                      day == int(parts[2])
                      year == int(parts[3])
                  IN  <<IF year < 100 THEN year + 2000 ELSE year, month, day>>
             ELSE <<0, 0, 0>>
        ELSE IF Len(parts) = 1 /\ Len(parts[1]) = 8
        THEN LET full_date == parts[1]
             IN  IF IsInt(SubSeq(full_date, 1, 4)) /\
                    IsInt(SubSeq(full_date, 5, 6)) /\
                    IsInt(SubSeq(full_date, 7, 8))
                 THEN <<int(SubSeq(full_date, 1, 4)),
                        int(SubSeq(full_date, 5, 6)),
                        int(SubSeq(full_date, 7, 8))>>
                 ELSE <<0, 0, 0>>
        ELSE <<0, 0, 0>>

\* The loop of resolve_model_name over MODEL_DEFINITIONS.items(), from the
\* i-th alias on: definition["model_names"] is a dict lookup, which raises
\* KeyError when the definition has no such key.
RECURSIVE ResolveLoop(_, _)
ResolveLoop(inp, i) ==
    IF i > Len(ModelAlias) THEN Raise("ValueError", inp)
    ELSE LET definition == MODEL_DEFINITIONS[ModelAlias[i]]
         IN  IF "model_names" \notin DOMAIN definition
             THEN Raise("KeyError", "model_names")
             ELSE IF inp \in Elements(definition["model_names"])
             THEN Ok(inp)
             ELSE ResolveLoop(inp, i + 1)

\* resolve_model_name that returns the first id listed under an alias.
resolve_model_name_first_id(inp) ==
    IF inp \in DOMAIN MODEL_DEFINITIONS
    THEN Ok(MODEL_DEFINITIONS[inp]["model_ids"][1])
    ELSE ResolveLoop(inp, 1)

\* resolve_model_name of utils/model_mapping.py.
resolve_model_name(inp) ==
    IF inp \in DOMAIN MODEL_DEFINITIONS
    THEN Ok(MODEL_DEFINITIONS[inp]["most_recent_model"])
    ELSE ResolveLoop(inp, 1)

\* get_provider, the loop over MODEL_DEFINITIONS.items() from entry i on.
RECURSIVE ProviderLoop(_, _)
ProviderLoop(inp, i) ==
    IF i > Len(ModelAlias) THEN Raise("ValueError", inp)
    ELSE LET definition == MODEL_DEFINITIONS[ModelAlias[i]]
         IN  IF "model_names" \notin DOMAIN definition
             THEN Raise("KeyError", "model_names")
             ELSE IF inp \in Elements(definition["model_names"])
                  THEN Ok(definition["provider"])
                  ELSE ProviderLoop(inp, i + 1)

\* get_provider(inp)
get_provider(inp) ==
    IF inp \in DOMAIN MODEL_DEFINITIONS
    THEN Ok(MODEL_DEFINITIONS[inp]["provider"])
    ELSE ProviderLoop(inp, 1)

(* ------------------------------------------------------------------ *)
(* Table generator (scripts/generate_model_definitions.py)             *)
(* ------------------------------------------------------------------ *)

\* re.fullmatch(r"\d{8}", suffix)
FullMatchEightDigits(suffix) == Len(suffix) = 8 /\ IsDigits(suffix)

\* extract_date(model, alias) of scripts/generate_model_definitions.py.
script_extract_date(model, alias) ==
    LET suffix == lstrip(DropFirst(Chars(model), Len(Chars(alias))))
        parts == split(suffix)
    IN  IF Len(parts) = 3
        THEN IF IsInt(parts[1]) /\ IsInt(parts[2]) /\ IsInt(parts[3])
             THEN LET month == int(parts[1])
                      day == int(parts[2])
                      year == int(parts[3])
                  IN  <<IF year < 100 THEN year + 2000 ELSE year, month, day>>
             ELSE <<0, 0, 0>>
        ELSE IF FullMatchEightDigits(suffix)
        THEN <<int(SubSeq(suffix, 1, 4)),
               int(SubSeq(suffix, 5, 6)),
               int(SubSeq(suffix, 7, 8))>>
        ELSE <<0, 0, 0>>

\* a < b on tuples of three integers, as Python compares tuples.
TupleLess(a, b) ==
    \/ a[1] < b[1]
    \/ a[1] = b[1] /\ a[2] < b[2]
    \/ a[1] = b[1] /\ a[2] = b[2] /\ a[3] < b[3]

\* One step of a stable sort by extracted date: x, which comes after every
\* element of the sorted list s in the input, goes behind all elements whose
\* key is not greater than its own.
RECURSIVE Insert(_, _, _)
Insert(s, x, alias) ==
    IF Len(s) = 0 THEN <<x>>
    ELSE IF TupleLess(script_extract_date(x, alias),
                      script_extract_date(s[Len(s)], alias))
         THEN Insert(SubSeq(s, 1, Len(s) - 1), x, alias) \o <<s[Len(s)]>>
         ELSE s \o <<x>>

\* sorted(model_ids, key=lambda x: extract_date(x, alias)); sorted is stable.
RECURSIVE sorted(_, _)
sorted(model_ids, alias) ==
    IF Len(model_ids) = 0 THEN <<>>
    ELSE Insert(sorted(SubSeq(model_ids, 1, Len(model_ids) - 1), alias),
                model_ids[Len(model_ids)], alias)

\* most_recent_model that takes the first of the ids with the latest date.
most_recent_model_first_of_ties(model_ids, alias) ==
    IF Len(model_ids) = 0 THEN Raise("IndexError", alias)
    ELSE LET sorted_ids == sorted(model_ids, alias)
             top == script_extract_date(sorted_ids[Len(sorted_ids)], alias)
             i == CHOOSE j \in 1..Len(sorted_ids) :
                     /\ script_extract_date(sorted_ids[j], alias) = top
                     /\ \A k \in 1..(j - 1) :
                            script_extract_date(sorted_ids[k], alias) # top
         IN  Ok(sorted_ids[i])

\* The most_recent_model that main computes for one alias: the last of the
\* sorted ids; with no id at all, sorted_ids[-1] raises, the handler's
\* model_ids[-1] raises again, and that IndexError leaves main.
most_recent_model(model_ids, alias) ==
    IF Len(model_ids) = 0 THEN Raise("IndexError", alias)
    ELSE LET sorted_ids == sorted(model_ids, alias)
         IN  Ok(sorted_ids[Len(sorted_ids)])

\* One model of the generators' input: its alias, the ids listed under
\* it, and the two messaging flags of its supported_features.
ModelEntry(alias, model_names, developer_message, system_message) ==
    [alias |-> alias, model_names |-> model_names,
     developer_message |-> developer_message,
     system_message |-> system_message]

\* model_names + [alias]
NamesOf(m) == Elements(m.model_names) \cup {m.alias}

\* The messaging lists with a model put on the user-only list whenever it
\* has no developer messages.
message_support_ignores_system(models_data) ==
    LET entries == Elements(models_data)
    IN  [developer_message_models |->
             UNION {NamesOf(m) : m \in {e \in entries : e.developer_message}},
         system_message_models |->
             UNION {NamesOf(m) : m \in {e \in entries : e.system_message}},
         only_user_message_models |->
             UNION {NamesOf(m) :
                       m \in {e \in entries : ~e.developer_message}}]

\* main of scripts/generate_supported_models.py, the three messaging lists:
\* every entry extends the lists its flags name, and the user-only list when
\* neither flag is set; sorted(set(...)) makes each list a set.
message_support(models_data) ==
    LET entries == Elements(models_data)
    IN  [developer_message_models |->
             UNION {NamesOf(m) : m \in {e \in entries : e.developer_message}},
         system_message_models |->
             UNION {NamesOf(m) : m \in {e \in entries : e.system_message}},
         only_user_message_models |->
             UNION {NamesOf(m) :
                       m \in {e \in entries : ~e.developer_message /\
                                               ~e.system_message}}]

(* ------------------------------------------------------------------ *)
(* Messages                                                            *)
(* ------------------------------------------------------------------ *)

Roles == {"system", "developer", "user", "assistant"}

\* TextMessage(role, text) and ImageMessage(role, image_url, image_detail).
TextMessage(role, text) == [type |-> "TextMessage", role |-> role, text |-> text]

ImageMessage(role, url, detail) ==
    [type |-> "ImageMessage", role |-> role, image_url |-> url,
     image_detail |-> detail]

\* message.role = new_role, everything else kept (in-place attribute write).
WithRole(m, new_role) == [m EXCEPT !.role = new_role]

\* handle_no_messages(model_name, init_call): a call without messages is an
\* error naming the model; a client may be constructed without messages.
handle_no_messages(model_name, init_call) ==
    IF init_call THEN Ok(None)
    ELSE Raise("MessagesNotProvidedError", model_name.v)

\* standardize_messages: a single message becomes a one-element list.
standardize_messages(messages) ==
    IF messages.t = "Message" THEN <<messages.v>> ELSE messages.v

\* count_message_roles: (system_count, developer_count).
count_message_roles(msgs) ==
    <<Cardinality({i \in 1..Len(msgs) : msgs[i].role = "system"}),
      Cardinality({i \in 1..Len(msgs) : msgs[i].role = "developer"})>>

\* convert_message_roles: the instruction-role message gets target_role.
convert_message_roles(msgs, target_role) ==
    [i \in 1..Len(msgs) |->
        IF msgs[i].role \in {"system", "developer"}
        THEN WithRole(msgs[i], target_role)
        ELSE msgs[i]]

\* _set_messages without the check for a system and a developer message
\* together.
_set_messages_no_both_check(model_name, messages, init_call) ==
    IF ~Truthy(messages) THEN handle_no_messages(model_name, init_call)
    ELSE
      LET msgs == standardize_messages(messages)
          system_count == count_message_roles(msgs)[1]
          developer_count == count_message_roles(msgs)[2]
      IN  IF system_count > 1
          THEN Raise("InvalidMessageError", "")
          ELSE IF developer_count > 1
          THEN Raise("InvalidMessageError", "")
          ELSE IF system_count > 0
          THEN IF model_name.v \in DEVELOPER_MESSAGE_SUPPORTED_MODELS
               THEN Ok(List(convert_message_roles(msgs, "developer")))
               ELSE IF model_name.v \in ONLY_USER_MESSAGE_SUPPORTED_MODELS
               THEN Ok(List(convert_message_roles(msgs, "user")))
               ELSE Ok(List(msgs))
          ELSE IF developer_count > 0
          THEN IF model_name.v \in SYSTEM_MESSAGE_SUPPORTED_MODELS
               THEN Ok(List(convert_message_roles(msgs, "system")))
               ELSE IF model_name.v \in ONLY_USER_MESSAGE_SUPPORTED_MODELS
               THEN Ok(List(convert_message_roles(msgs, "user")))
               ELSE Ok(List(msgs))
          ELSE Ok(List(msgs))

\* _set_messages without the branches for the models that take user
\* messages only.
_set_messages_no_user_only(model_name, messages, init_call) ==
    IF ~Truthy(messages) THEN handle_no_messages(model_name, init_call)
    ELSE
      LET msgs == standardize_messages(messages)
          system_count == count_message_roles(msgs)[1]
          developer_count == count_message_roles(msgs)[2]
      IN  IF system_count > 1
          THEN Raise("InvalidMessageError", "")
          ELSE IF developer_count > 1
          THEN Raise("InvalidMessageError", "")
          ELSE IF system_count >= 1 /\ developer_count >= 1
          THEN Raise("InvalidMessageError", "")
          ELSE IF system_count > 0
          THEN IF model_name.v \in DEVELOPER_MESSAGE_SUPPORTED_MODELS
               THEN Ok(List(convert_message_roles(msgs, "developer")))
               ELSE Ok(List(msgs))
          ELSE IF developer_count > 0
          THEN IF model_name.v \in SYSTEM_MESSAGE_SUPPORTED_MODELS
               THEN Ok(List(convert_message_roles(msgs, "system")))
               ELSE Ok(List(msgs))
          ELSE Ok(List(msgs))

\* _set_messages whose system-message branch tests the system models
\* instead of the developer models.
_set_messages_wrong_table(model_name, messages, init_call) ==
    IF ~Truthy(messages) THEN handle_no_messages(model_name, init_call)
    ELSE
      LET msgs == standardize_messages(messages)
          system_count == count_message_roles(msgs)[1]
          developer_count == count_message_roles(msgs)[2]
      IN  IF system_count > 1
          THEN Raise("InvalidMessageError", "")
          ELSE IF developer_count > 1
          THEN Raise("InvalidMessageError", "")
          ELSE IF system_count >= 1 /\ developer_count >= 1
          THEN Raise("InvalidMessageError", "")
          ELSE IF system_count > 0
          THEN IF model_name.v \in SYSTEM_MESSAGE_SUPPORTED_MODELS
               THEN Ok(List(convert_message_roles(msgs, "developer")))
               ELSE IF model_name.v \in ONLY_USER_MESSAGE_SUPPORTED_MODELS
               THEN Ok(List(convert_message_roles(msgs, "user")))
               ELSE Ok(List(msgs))
          ELSE IF developer_count > 0
          THEN IF model_name.v \in SYSTEM_MESSAGE_SUPPORTED_MODELS
               THEN Ok(List(convert_message_roles(msgs, "system")))
               ELSE IF model_name.v \in ONLY_USER_MESSAGE_SUPPORTED_MODELS
               THEN Ok(List(convert_message_roles(msgs, "user")))
               ELSE Ok(List(msgs))
          ELSE Ok(List(msgs))

\* BaseLLMClient._set_messages
_set_messages(model_name, messages, init_call) ==
    IF ~Truthy(messages) THEN handle_no_messages(model_name, init_call)
    ELSE
      LET msgs == standardize_messages(messages)
          system_count == count_message_roles(msgs)[1]
          developer_count == count_message_roles(msgs)[2]
      IN  IF system_count > 1
          THEN Raise("InvalidMessageError", "")
          ELSE IF developer_count > 1
          THEN Raise("InvalidMessageError", "")
          ELSE IF system_count >= 1 /\ developer_count >= 1
          THEN Raise("InvalidMessageError", "")
          ELSE IF system_count > 0
          THEN IF model_name.v \in DEVELOPER_MESSAGE_SUPPORTED_MODELS
               THEN Ok(List(convert_message_roles(msgs, "developer")))
               ELSE IF model_name.v \in ONLY_USER_MESSAGE_SUPPORTED_MODELS
               THEN Ok(List(convert_message_roles(msgs, "user")))
               ELSE Ok(List(msgs))
          ELSE IF developer_count > 0
          THEN IF model_name.v \in SYSTEM_MESSAGE_SUPPORTED_MODELS
               THEN Ok(List(convert_message_roles(msgs, "system")))
               ELSE IF model_name.v \in ONLY_USER_MESSAGE_SUPPORTED_MODELS
               THEN Ok(List(convert_message_roles(msgs, "user")))
               ELSE Ok(List(msgs))
          ELSE Ok(List(msgs))

(* ------------------------------------------------------------------ *)
(* Capability gate (base.py 270-375)                                   *)
(* ------------------------------------------------------------------ *)

\* `model_name or self.model_name`
OrDefault(model_name, self) ==
    IF Truthy(model_name) THEN model_name ELSE self.model_name

\* A tool entry: an instance of clients.types.Tool (kind "Tool", which
\* always has a name and a description), a dict (has_name: the key is
\* present) or an object of another class (has_name: the attribute is set).
ToolEntry(kind, id, has_name, has_description) ==
    [kind |-> kind, id |-> id, has_name |-> has_name,
     has_description |-> has_description]

\* A tool object exposing name and description.
Tool(id) == ToolEntry("Tool", id, TRUE, TRUE)

\* hasattr(tool, "name") / hasattr(tool, "description"): the keys of a dict
\* are not attributes.
hasattr(tool, attr) ==
    IF tool.kind = "dict" THEN FALSE
    ELSE IF attr = "name" THEN tool.has_name
    ELSE tool.has_description

\* get_model_message_not_supported_error: the message names the model and
\* the models that support the feature.
get_model_message_not_supported_error(model_name, supported_models) ==
    [model |-> model_name, supported |-> supported_models]

\* The message of a not-supported error: each exception class formats the
\* model name it was given with its own feature's table.
NotSupportedMessage(error) ==
    CASE error.type = "StructuredOutputNotSupportedError" ->
             get_model_message_not_supported_error(
                 error.model, STRUCTURED_OUTPUT_SUPPORTED_MODELS)
      [] error.type = "ReasoningEffortNotSupportedError" ->
             get_model_message_not_supported_error(
                 error.model, REASONING_EFFORT_SUPPORTED_MODELS)
      [] error.type = "ToolsNotSupportedError" ->
             get_model_message_not_supported_error(
                 error.model, FUNCTION_CALL_SUPPORTED_MODELS)

\* _set_reasoning_effort that builds its error from self.model_name.
_set_reasoning_effort_names_default(self, reasoning_effort, model_name) ==
    LET m == OrDefault(model_name, self)
    IN  IF IsNone(reasoning_effort) THEN Ok(None)
        ELSE IF m.v \notin REASONING_EFFORT_SUPPORTED_MODELS
        THEN Raise("ReasoningEffortNotSupportedError", self.model_name.v)
        ELSE Ok(reasoning_effort)

\* _set_reasoning_effort that looks the model up in the function-call table.
_set_reasoning_effort_wrong_table(self, reasoning_effort, model_name) ==
    LET m == OrDefault(model_name, self)
    IN  IF IsNone(reasoning_effort) THEN Ok(None)
        ELSE IF m.v \notin FUNCTION_CALL_SUPPORTED_MODELS
        THEN Raise("ReasoningEffortNotSupportedError", m.v)
        ELSE Ok(reasoning_effort)

\* BaseLLMClient._set_reasoning_effort
_set_reasoning_effort(self, reasoning_effort, model_name) ==
    LET m == OrDefault(model_name, self)
    IN  IF IsNone(reasoning_effort) THEN Ok(None)
        ELSE IF m.v \notin REASONING_EFFORT_SUPPORTED_MODELS
        THEN Raise("ReasoningEffortNotSupportedError", m.v)
        ELSE Ok(reasoning_effort)

\* _set_tools that does not look at the entries of the list.
_set_tools_no_entry_check(self, tools, model_name) ==
    LET m == OrDefault(model_name, self)
    IN  IF IsNone(tools) THEN Ok(None)
        ELSE IF m.v \notin FUNCTION_CALL_SUPPORTED_MODELS
        THEN Raise("ToolsNotSupportedError", m.v)
        ELSE IF ~IsList(tools)
        THEN Raise("ValueError", "")
        ELSE Ok(tools)

\* BaseLLMClient._set_tools
_set_tools(self, tools, model_name) ==
    LET m == OrDefault(model_name, self)
    IN  IF IsNone(tools) THEN Ok(None)
        ELSE IF m.v \notin FUNCTION_CALL_SUPPORTED_MODELS
        THEN Raise("ToolsNotSupportedError", m.v)
        ELSE IF ~IsList(tools)
        THEN Raise("ValueError", "")
        ELSE IF \E i \in 1..Len(tools.v) :
                    ~hasattr(tools.v[i], "name") \/
                    ~hasattr(tools.v[i], "description")
        THEN Raise("ValueError", "")
        ELSE Ok(tools)

\* _set_tool_choice that keeps an explicit choice whether or not there are
\* tools.
_set_tool_choice_keeps_choice(tool_choice, tools) ==
    IF ~IsNone(tool_choice) THEN tool_choice
    ELSE IF IsNone(tools) THEN None
    ELSE Str("auto")

\* BaseLLMClient._set_tool_choice
_set_tool_choice(tool_choice, tools) ==
    IF IsNone(tools) THEN None
    ELSE IF IsNone(tool_choice) THEN Str("auto")
    ELSE tool_choice

\* BaseLLMClient._validate_structured_model; the not-supported error is
\* built from self.model_name.
_validate_structured_model(self, structured_model, model_name) ==
    LET m == OrDefault(model_name, self)
    IN  IF IsNone(structured_model) THEN Ok(None)
        ELSE IF m.v \notin STRUCTURED_OUTPUT_SUPPORTED_MODELS
        THEN Raise("StructuredOutputNotSupportedError", self.model_name.v)
        ELSE IF structured_model.t # "BaseModel"
        THEN Raise("ValueError", "")
        ELSE Ok(structured_model)

(* ------------------------------------------------------------------ *)
(* Parameter merger (base.py 420-482, clients/types.py 81-103)         *)
(* ------------------------------------------------------------------ *)

\* BaseLLMCallParams.model_fields, in declaration order.
Fields ==
    <<"messages", "model", "user", "tools", "tool_choice",
      "reasoning_effort", "structured_model">>

\* Union of two dicts, keys of r winning (d.copy(); d.update(r)).
DictUpdate(d, r) ==
    [k \in (DOMAIN d) \cup (DOMAIN r) |-> IF k \in DOMAIN r THEN r[k] ELSE d[k]]

\* default_value that takes the messages stored at construction as the
\* default of the messages field.
DefaultValue_with_messages(self, field) ==
    CASE field = "model" -> self.model_name
      [] field = "tools" -> self.tools
      [] field = "tool_choice" -> self.tool_choice
      [] field = "reasoning_effort" -> self.reasoning_effort
      [] field = "user" -> self.user
      [] field = "messages" -> self.messages
      [] OTHER -> None

\* default_value of one field in _merge_parameters.
DefaultValue(self, field) ==
    CASE field = "model" -> self.model_name
      [] field = "tools" -> self.tools
      [] field = "tool_choice" -> self.tool_choice
      [] field = "reasoning_effort" -> self.reasoning_effort
      [] field = "user" -> self.user
      [] OTHER -> None

\* merged[field] that never combines: the runtime value if given, else the
\* default, whatever the merge flag.
MergeField_override_only(self, runtime, merge_flags, field) ==
    LET default_value == DefaultValue(self, field)
        runtime_value == runtime[field]
    IN  IF ~IsNone(runtime_value) THEN runtime_value ELSE default_value

\* merged[field] of _merge_parameters; runtime[field] is runtime.get(field),
\* merge_flags is the set of fields whose flag is true.
MergeField(self, runtime, merge_flags, field) ==
    LET default_value == DefaultValue(self, field)
        runtime_value == runtime[field]
        merge_flag == field \in merge_flags
    IN  IF merge_flag /\ ~IsNone(default_value) /\ ~IsNone(runtime_value)
        THEN IF IsList(default_value) /\ IsList(runtime_value)
             THEN List(default_value.v \o runtime_value.v)
             ELSE IF IsDict(default_value) /\ IsDict(runtime_value)
             THEN Dict(DictUpdate(default_value.v, runtime_value.v))
             ELSE runtime_value
        ELSE IF ~IsNone(runtime_value) THEN runtime_value ELSE default_value

\* ReasoningEffort = Literal["low", "medium", "high"]
ReasoningEffort == {"low", "medium", "high"}

\* ToolChoice(type, function_name), a pydantic model.
ToolChoice(function_name) ==
    [t |-> "ToolChoice",
     v |-> [type |-> "function", function_name |-> function_name]]

\* pydantic validation of one entry of List[Tool]: a Tool instance, or a
\* dict holding the required keys, which becomes a Tool instance.
ValidTool(tool) ==
    \/ tool.kind = "Tool"
    \/ tool.kind = "dict" /\ tool.has_name /\ tool.has_description

CoerceTool(tool) == [tool EXCEPT !.kind = "Tool"]

\* pydantic validation of ToolChoiceOption = Literal["auto"] | None |
\* ToolChoice: a dict with the key type becomes a ToolChoice instance.
ValidToolChoice(x) ==
    \/ IsNone(x)
    \/ x = Str("auto")
    \/ x.t = "ToolChoice"
    \/ IsDict(x) /\ "type" \in DOMAIN x.v /\ x.v["type"] = "function"

CoerceToolChoice(x) ==
    IF IsDict(x)
    THEN ToolChoice(IF "function_name" \in DOMAIN x.v
                    THEN x.v["function_name"] ELSE None)
    ELSE x

\* The value pydantic stores for one field of BaseLLMCallParams.
CoerceField(field, x) ==
    CASE field = "tools" /\ IsList(x) ->
             List([i \in 1..Len(x.v) |-> CoerceTool(x.v[i])])
      [] field = "tool_choice" -> CoerceToolChoice(x)
      [] OTHER -> x

\* The pydantic model BaseLLMCallParams(**merged): messages and model are
\* required and typed, the other fields are Optional, and keys that are
\* not fields of the model are ignored.
BaseLLMCallParams(merged) ==
    IF merged.messages.t \notin {"list", "Message"}
    THEN Raise("ValidationError", "")
    ELSE IF merged.model.t # "str" \/ merged.model.v \notin ModelName
    THEN Raise("ValidationError", "")
    ELSE IF merged.user.t \notin {"NoneType", "str"}
    THEN Raise("ValidationError", "")
    ELSE IF ~IsNone(merged.tools) /\
            (~IsList(merged.tools) \/
             \E i \in 1..Len(merged.tools.v) : ~ValidTool(merged.tools.v[i]))
    THEN Raise("ValidationError", "")
    ELSE IF ~ValidToolChoice(merged.tool_choice)
    THEN Raise("ValidationError", "")
    ELSE IF ~IsNone(merged.reasoning_effort) /\
            (merged.reasoning_effort.t # "str" \/
             merged.reasoning_effort.v \notin ReasoningEffort)
    THEN Raise("ValidationError", "")
    ELSE IF merged.structured_model.t \notin {"NoneType", "BaseModel"}
    THEN Raise("ValidationError", "")
    ELSE Ok([f \in {Fields[i] : i \in 1..Len(Fields)} |->
                CoerceField(f, merged[f])])

\* The dict `merged` that _merge_parameters builds: one entry per field,
\* then every other key of the runtime parameters.
MergedDict(self, runtime, merge_flags) ==
    LET merged == [f \in {Fields[i] : i \in 1..Len(Fields)} |->
                      MergeField(self, runtime, merge_flags, f)]
        extra == [k \in DOMAIN runtime.extra |-> runtime.extra[k]]
    IN  [k \in (DOMAIN merged) \cup (DOMAIN extra) |->
            IF k \in DOMAIN merged THEN merged[k] ELSE extra[k]]

\* BaseLLMClient._merge_parameters
_merge_parameters(self, runtime, merge_flags) ==
    BaseLLMCallParams(MergedDict(self, runtime, merge_flags))

(* ------------------------------------------------------------------ *)
(* Validation and shaping (base.py 381-411, openai.py 143-153)         *)
(* ------------------------------------------------------------------ *)

\* _validate_and_unpack_parameters that tests the reasoning effort and the
\* tools against the default model of the client.
_validate_and_unpack_parameters_gates_default_model(self, params, structured_model) ==
    LET msgs == _set_messages(params.model, params.messages, FALSE)
        tools == _set_tools(self, params.tools, self.model_name)
        tool_choice == _set_tool_choice(params.tool_choice, params.tools)
        effort == _set_reasoning_effort(self, params.reasoning_effort, self.model_name)
        structured == _validate_structured_model(self, structured_model, params.model)
    IN  IF ~msgs.ok THEN msgs
        ELSE IF ~tools.ok THEN tools
        ELSE IF ~effort.ok THEN effort
        ELSE IF ~structured.ok THEN structured
        ELSE Ok([model |-> params.model,
                 messages |-> msgs.value,
                 user |-> params.user,
                 tools |-> tools.value,
                 tool_choice |-> tool_choice,
                 reasoning_effort |-> effort.value,
                 structured_model |-> structured.value])

\* BaseLLMClient._validate_and_unpack_parameters: the keyword arguments of
\* ValidatedBaseLLMCallParams are evaluated in order, the first error wins.
_validate_and_unpack_parameters(self, params, structured_model) ==
    LET msgs == _set_messages(params.model, params.messages, FALSE)
        tools == _set_tools(self, params.tools, params.model)
        tool_choice == _set_tool_choice(params.tool_choice, params.tools)
        effort == _set_reasoning_effort(self, params.reasoning_effort, params.model)
        structured == _validate_structured_model(self, structured_model, params.model)
    IN  IF ~msgs.ok THEN msgs
        ELSE IF ~tools.ok THEN tools
        ELSE IF ~effort.ok THEN effort
        ELSE IF ~structured.ok THEN structured
        ELSE Ok([model |-> params.model,
                 messages |-> msgs.value,
                 user |-> params.user,
                 tools |-> tools.value,
                 tool_choice |-> tool_choice,
                 reasoning_effort |-> effort.value,
                 structured_model |-> structured.value])

\* One content block of to_openai_format_messages.
ContentBlock(message) ==
    IF message.type = "TextMessage"
    THEN [type |-> "text", text |-> message.text]
    ELSE [type |-> "image_url",
          image_url |-> [url |-> message.image_url,
                         detail |-> message.image_detail]]

\* to_openai_format_messages that formats only the text messages.
to_openai_format_messages_text_only(message_list) ==
    LET texts == SelectSeq(message_list, LAMBDA m : m.type = "TextMessage")
    IN  [i \in 1..Len(texts) |->
            [role |-> texts[i].role, content |-> <<ContentBlock(texts[i])>>]]

\* to_openai_format_messages (messages/provider_transformers.py)
to_openai_format_messages(message_list) ==
    [i \in 1..Len(message_list) |->
        [role |-> message_list[i].role,
         content |-> <<ContentBlock(message_list[i])>>]]

\* to_openai_format: the validated parameters in the provider's shape.
to_openai_format(validated_params) ==
    [messages |-> to_openai_format_messages(validated_params.messages.v),
     model |-> validated_params.model,
     user |-> validated_params.user,
     tools |-> validated_params.tools,
     tool_choice |-> validated_params.tool_choice,
     reasoning_effort |-> validated_params.reasoning_effort,
     response_format |-> validated_params.structured_model]

\* OpenAILLMClient._prepare_params_for_provider
_prepare_params_for_provider(self, base_params, structured_model) ==
    LET validated_params ==
            _validate_and_unpack_parameters(self, base_params, structured_model)
    IN  IF ~validated_params.ok THEN validated_params
        ELSE Ok([validated |-> validated_params.value,
                 shaped |-> to_openai_format(validated_params.value)])

(* ------------------------------------------------------------------ *)
(* The client object (base.py 98-211, openai.py 125-137)               *)
(* ------------------------------------------------------------------ *)

Clients == {1, 2}

Procs == {1, 2}

\* OpenAILLMClient._init_client: the handle is OpenAI or AsyncOpenAI.
_init_client(use_async) == IF use_async THEN "AsyncOpenAI" ELSE "OpenAI"

\* BaseLLMClient.__init__ on constructor arguments a.
__init__(a) ==
    LET self0 == [model_name |-> a.model_name]
        messages == _set_messages(a.model_name, a.messages, TRUE)
        effort == _set_reasoning_effort(self0, a.reasoning_effort, a.model_name)
        tools == _set_tools(self0, a.tools, a.model_name)
    IN  IF ~messages.ok THEN messages
        ELSE IF ~effort.ok THEN effort
        ELSE IF ~tools.ok THEN tools
        ELSE Ok([model_name |-> a.model_name,
                 messages |-> messages.value,
                 reasoning_effort |-> effort.value,
                 tools |-> tools.value,
                 tool_choice |-> _set_tool_choice(a.tool_choice, a.tools),
                 user |-> a.user,
                 use_async |-> a.use_async,
                 client |-> _init_client(a.use_async)])

\* _validate_client that sets the flag but keeps the handle it holds.
_validate_client_keeps_handle(self, use_async) ==
    [self EXCEPT !.use_async = use_async]

\* _validate_client that never reinitializes.
_validate_client_no_switch(self, use_async) == self

\* BaseLLMClient._validate_client
_validate_client(self, use_async) ==
    IF use_async /\ ~self.use_async
    THEN [self EXCEPT !.client = _init_client(TRUE), !.use_async = TRUE]
    ELSE IF ~use_async /\ self.use_async
    THEN [self EXCEPT !.client = _init_client(FALSE), !.use_async = FALSE]
    ELSE self

(* ------------------------------------------------------------------ *)
(* The provider transport and the four _call_api methods               *)
(* (openai.py 159-293)                                                 *)
(* ------------------------------------------------------------------ *)

Ops == {"run", "run_async", "run_structured", "run_structured_async"}

IsAsync(op) == op \in {"run_async", "run_structured_async"}

IsStructured(op) == op \in {"run_structured", "run_structured_async"}

\* The handle class a call of this operation expects.
HandleOf(op) == _init_client(IsAsync(op))

\* client...create(**params) / client...parse(**params), awaited or not.
\* o is what the provider does: o.raises, or a completion with o.choices
\* and the token counts o.usage.
\* An AsyncOpenAI method that is not awaited only builds a coroutine; the
\* result of an OpenAI method cannot be awaited.
Create(client, awaited, o) ==
    IF client = "AsyncOpenAI" /\ ~awaited THEN Ok([t |-> "coroutine"])
    ELSE IF o.raises THEN Raise("APIError", "")
    ELSE IF client = "OpenAI" /\ awaited THEN Raise("TypeError", "")
    ELSE Ok([t |-> "ChatCompletion", choices |-> o.choices,
             usage |-> o.usage])

\* OpenAILLMClient._call_api_sync; the two messages of the response checks
\* format the name e, which is bound only inside the except clause.
_call_api_sync(client, o) ==
    LET response == Create(client, FALSE, o)
    IN  IF ~response.ok THEN Raise("LLMResponseCompletionError", "")
        ELSE IF response.value.t = "coroutine" THEN Raise("AttributeError", "")
        ELSE IF Len(response.value.choices) = 0
        THEN Raise("UnboundLocalError", "")
        ELSE IF ~Truthy(response.value.choices[1].content)
        THEN Raise("UnboundLocalError", "")
        ELSE Ok(response.value)

\* _call_api_async without the try/except around the provider call.
_call_api_async_leaks(client, o) ==
    LET response == Create(client, TRUE, o)
    IN  IF ~response.ok THEN response
        ELSE IF Len(response.value.choices) = 0
        THEN Raise("LLMResponseCompletionError", "")
        ELSE IF ~Truthy(response.value.choices[1].content)
        THEN Raise("LLMResponseCompletionError", "")
        ELSE Ok(response.value)

\* OpenAILLMClient._call_api_async
_call_api_async(client, o) ==
    LET response == Create(client, TRUE, o)
    IN  IF ~response.ok THEN Raise("LLMResponseCompletionError", "")
        ELSE IF Len(response.value.choices) = 0
        THEN Raise("LLMResponseCompletionError", "")
        ELSE IF ~Truthy(response.value.choices[1].content)
        THEN Raise("LLMResponseCompletionError", "")
        ELSE Ok(response.value)

\* OpenAILLMClient._call_api_structured
_call_api_structured(client, o) ==
    LET response == Create(client, FALSE, o)
    IN  IF ~response.ok THEN Raise("LLMResponseCompletionError", "")
        ELSE IF response.value.t = "coroutine" THEN Raise("AttributeError", "")
        ELSE IF Len(response.value.choices) = 0
        THEN Raise("LLMResponseParseError", "")
        ELSE IF ~Truthy(response.value.choices[1].parsed)
        THEN Raise("LLMResponseParseError", "")
        ELSE Ok(response.value)

\* OpenAILLMClient._call_api_structured_async
_call_api_structured_async(client, o) ==
    LET response == Create(client, TRUE, o)
    IN  IF ~response.ok THEN Raise("LLMResponseCompletionError", "")
        ELSE IF Len(response.value.choices) = 0
        THEN Raise("LLMResponseParseError", "")
        ELSE IF ~Truthy(response.value.choices[1].parsed)
        THEN Raise("LLMResponseParseError", "")
        ELSE Ok(response.value)

\* The _call_api method each public operation ends in.
CallApi(op, client, o) ==
    CASE op = "run" -> _call_api_sync(client, o)
      [] op = "run_async" -> _call_api_async(client, o)
      [] op = "run_structured" -> _call_api_structured(client, o)
      [] op = "run_structured_async" -> _call_api_structured_async(client, o)

(* ------------------------------------------------------------------ *)
(* Usage and cost (clients/decorators/usage.py, constants/usage.py)    *)
(* ------------------------------------------------------------------ *)

\* Prices are multiples of a quarter dollar; they are kept as numbers of
\* quarters per million tokens, and a cost as a number of quarters per
\* million: dollars = cost / (PriceUnitsPerDollar * ONE_MILLION_TOKENS).
PriceUnitsPerDollar == 4

ONE_MILLION_TOKENS == 1000000

Pricing(prompt_tokens, cached_prompt_tokens, output_tokens) ==
    [prompt_tokens |-> prompt_tokens,
     cached_prompt_tokens |-> cached_prompt_tokens,
     output_tokens |-> output_tokens]

\* constants/usage.py: 2.5 / 1.25 / 10, 15 / 7.5 / 60 and 3.0 / 1.5 / 12
\* dollars per million tokens, and 0.0 for the other four aliases.
MODEL_PRICING ==
    [alias \in {"claude-3-5-sonnet", "claude-3-haiku", "claude-3-opus",
                "gpt-4o", "o1", "o1-mini", "o3-mini"} |->
        CASE alias = "gpt-4o" -> Pricing(10, 5, 40)
          [] alias = "o1" -> Pricing(60, 30, 240)
          [] alias = "o1-mini" -> Pricing(12, 6, 48)
          [] OTHER -> Pricing(0, 0, 0)]

\* response.usage of a completion: prompt_tokens_details is None or holds
\* cached_tokens.
CompletionUsage(prompt_tokens, prompt_tokens_details, completion_tokens) ==
    [t |-> "CompletionUsage",
     prompt_tokens |-> prompt_tokens,
     prompt_tokens_details |-> prompt_tokens_details,
     completion_tokens |-> completion_tokens,
     total_tokens |-> prompt_tokens + completion_tokens]

PromptTokensDetails(cached_tokens) ==
    [t |-> "PromptTokensDetails", cached_tokens |-> cached_tokens]

\* AIUsage(prompt_tokens=response.usage.prompt_tokens, ...): reading an
\* attribute of None raises AttributeError.
AIUsage(response, latency) ==
    IF IsNone(response.usage) THEN Raise("AttributeError", "")
    ELSE IF IsNone(response.usage.prompt_tokens_details)
    THEN Raise("AttributeError", "")
    ELSE Ok([t |-> "AIUsage",
             prompt_tokens |-> response.usage.prompt_tokens,
             cached_prompt_tokens |->
                 response.usage.prompt_tokens_details.cached_tokens,
             completion_tokens |-> response.usage.completion_tokens,
             total_tokens |-> response.usage.total_tokens,
             latency |-> latency])

\* track_model_cost that leaves the output cost out of the total.
track_model_cost_drops_output(model_name, usage) ==
    LET price == IF model_name \in DOMAIN MODEL_PRICING
                 THEN MODEL_PRICING[model_name]
                 ELSE Pricing(0, 0, 0)
        prompt_cost == usage.prompt_tokens * price.prompt_tokens
        cached_prompt_cost ==
            usage.cached_prompt_tokens * price.cached_prompt_tokens
        output_cost == usage.completion_tokens * price.output_tokens
    IN  [t |-> "AICost",
         prompt_cost |-> prompt_cost,
         cached_prompt_cost |-> cached_prompt_cost,
         output_cost |-> output_cost,
         total_cost |-> prompt_cost + cached_prompt_cost]

\* track_model_cost(model_name, usage): each category costs its tokens
\* times the price per million, divided by a million; the total is the sum;
\* a model without a pricing entry costs nothing.
track_model_cost(model_name, usage) ==
    LET price == IF model_name \in DOMAIN MODEL_PRICING
                 THEN MODEL_PRICING[model_name]
                 ELSE Pricing(0, 0, 0)
        prompt_cost == usage.prompt_tokens * price.prompt_tokens
        cached_prompt_cost ==
            usage.cached_prompt_tokens * price.cached_prompt_tokens
        output_cost == usage.completion_tokens * price.output_tokens
    IN  [t |-> "AICost",
         prompt_cost |-> prompt_cost,
         cached_prompt_cost |-> cached_prompt_cost,
         output_cost |-> output_cost,
         total_cost |-> prompt_cost + cached_prompt_cost + output_cost]

\* process_response that computes the cost only from a returned usage.
process_response_cost_needs_usage(response, latency, model_name, ret_usage, ret_cost) ==
    IF ~(ret_usage \/ ret_cost) THEN Ok(<<response, None, None>>)
    ELSE LET usage == IF ret_usage THEN AIUsage(response, latency)
                      ELSE Ok(None)
         IN  IF ~usage.ok THEN usage
             ELSE IF ret_cost /\ ~IsNone(usage.value)
             THEN Ok(<<response, usage.value,
                       track_model_cost(model_name, usage.value)>>)
             ELSE Ok(<<response, usage.value, None>>)

\* calculate_cost_and_usage.process_response; latency is the time measured
\* around the decorated function.
process_response(response, latency, model_name, ret_usage, ret_cost) ==
    IF ~(ret_usage \/ ret_cost) THEN Ok(<<response, None, None>>)
    ELSE LET usage == IF ret_usage THEN AIUsage(response, latency)
                      ELSE Ok(None)
             for_cost == IF usage.ok /\ ~IsNone(usage.value) THEN usage
                         ELSE AIUsage(response, latency)
         IN  IF ~usage.ok THEN usage
             ELSE IF ret_cost
             THEN IF ~for_cost.ok THEN for_cost
                  ELSE Ok(<<response, usage.value,
                            track_model_cost(model_name, for_cost.value)>>)
             ELSE Ok(<<response, usage.value, None>>)

(* ------------------------------------------------------------------ *)
(* Calls                                                               *)
(* ------------------------------------------------------------------ *)

\* **kwargs of a public operation: the recognized keys (None when the key
\* is not passed, as runtime.get gives) and the unrecognized ones.
Kwargs(model, user, tools, tool_choice, reasoning_effort, extra) ==
    [model |-> model, user |-> user, tools |-> tools,
     tool_choice |-> tool_choice, reasoning_effort |-> reasoning_effort,
     structured_model |-> None, extra |-> extra]

NoKwargs == Kwargs(None, None, None, None, None, <<>>)

\* Arguments of one call: the operation, its messages, its structured_model
\* (None for the plain operations), **kwargs and kwargs["__merge__"];
\* return_usage and return_cost have their default, True.
Args(op, messages, structured_model, kwargs, merge) ==
    [op |-> op, messages |-> messages, structured_model |-> structured_model,
     kwargs |-> kwargs, merge |-> merge,
     return_usage |-> TRUE, return_cost |-> TRUE]

\* The arguments a with return_usage and return_cost given.
Returning(a, return_usage, return_cost) ==
    [a EXCEPT !.return_usage = return_usage, !.return_cost = return_cost]

NoArgs == Args("none", None, None, NoKwargs, {})

\* No registry lookup has been made.
NoLookup == [op |-> "none"]

\* A call slot that is not in a call; c is the client the slot calls.
IdleCall(c) ==
    [pc |-> "idle", c |-> c, args |-> NoArgs, pre |-> None,
     merged |-> None, params |-> None,
     validated |-> None, shaped |-> None, transport_calls |-> 0,
     handle |-> "none", outcome |-> None, response |-> None,
     usage |-> None, cost |-> None,
     error |-> NoError, failed_in |-> ""]

\* The wrapper calculate_cost_and_usage puts around _call_api_*, after the
\* decorated function has returned response: the call ends with
\* (response, usage, cost), or with what process_response raises.
Accounted(call, response, latency) ==
    LET r == process_response(response, latency, call.params.v.model.v,
                              call.args.return_usage, call.args.return_cost)
    IN  IF r.ok
        THEN [call EXCEPT !.pc = "done", !.response = r.value[1],
                          !.usage = r.value[2], !.cost = r.value[3]]
        ELSE [call EXCEPT !.pc = "failed", !.error = r.error,
                          !.failed_in = "accounting"]

\* Call that merges in place: the merged tools and tool_choice are left in
\* the client as its defaults.
Call_merges_in_place(p, a) ==
    /\ calls[p].pc = "idle"
    /\ LET c == calls[p].c
           self == _validate_client(clients[c], IsAsync(a.op))
           runtime == [messages |-> a.messages,
                       model |-> a.kwargs.model,
                       user |-> a.kwargs.user,
                       tools |-> a.kwargs.tools,
                       tool_choice |-> a.kwargs.tool_choice,
                       reasoning_effort |-> a.kwargs.reasoning_effort,
                       structured_model |-> a.kwargs.structured_model,
                       extra |-> a.kwargs.extra]
           merged_params == _merge_parameters(self, runtime, a.merge)
           prepared == IF merged_params.ok
                       THEN _prepare_params_for_provider(
                                self, merged_params.value, a.structured_model)
                       ELSE merged_params
           started == [IdleCall(c) EXCEPT
                          !.args = a, !.pre = clients[c],
                          !.merged = MergedDict(self, runtime, a.merge),
                          !.params = IF merged_params.ok
                                     THEN [t |-> "BaseLLMCallParams",
                                           v |-> merged_params.value]
                                     ELSE None]
       IN  /\ clients' = [clients EXCEPT ![c] =
                  IF merged_params.ok
                  THEN [self EXCEPT
                           !.tools = merged_params.value.tools,
                           !.tool_choice = merged_params.value.tool_choice]
                  ELSE self]
           /\ UNCHANGED lookup
           /\ calls' = [calls EXCEPT ![p] =
                  IF prepared.ok
                  THEN [started EXCEPT !.pc = "executing",
                                       !.validated = prepared.value.validated,
                                       !.shaped = prepared.value.shaped]
                  ELSE [started EXCEPT !.pc = "failed",
                                       !.error = prepared.error,
                                       !.failed_in = "validating"]]

\* run / run_async / run_structured / run_structured_async up to the
\* provider invocation: _validate_client, the runtime dict, _merge_parameters
\* and, inside _call_api_*, _prepare_params_for_provider.
Call(p, a) ==
    /\ calls[p].pc = "idle"
    /\ LET c == calls[p].c
           self == _validate_client(clients[c], IsAsync(a.op))
           runtime == [messages |-> a.messages,
                       model |-> a.kwargs.model,
                       user |-> a.kwargs.user,
                       tools |-> a.kwargs.tools,
                       tool_choice |-> a.kwargs.tool_choice,
                       reasoning_effort |-> a.kwargs.reasoning_effort,
                       structured_model |-> a.kwargs.structured_model,
                       extra |-> a.kwargs.extra]
           merged_params == _merge_parameters(self, runtime, a.merge)
           prepared == IF merged_params.ok
                       THEN _prepare_params_for_provider(
                                self, merged_params.value, a.structured_model)
                       ELSE merged_params
           started == [IdleCall(c) EXCEPT
                          !.args = a, !.pre = clients[c],
                          !.merged = MergedDict(self, runtime, a.merge),
                          !.params = IF merged_params.ok
                                     THEN [t |-> "BaseLLMCallParams",
                                           v |-> merged_params.value]
                                     ELSE None]
       IN  /\ clients' = [clients EXCEPT ![c] = self]
           /\ UNCHANGED lookup
           /\ calls' = [calls EXCEPT ![p] =
                  IF prepared.ok
                  THEN [started EXCEPT !.pc = "executing",
                                       !.validated = prepared.value.validated,
                                       !.shaped = prepared.value.shaped]
                  ELSE [started EXCEPT !.pc = "failed",
                                       !.error = prepared.error,
                                       !.failed_in = "validating"]]

\* Transport that invokes the provider again after a failed invocation.
Transport_retries(p, o) ==
    /\ calls[p].pc = "executing"
    /\ calls[p].transport_calls < 2
    /\ LET call == calls[p]
           client == clients[call.c].client
           r == CallApi(call.args.op, client, o)
           invoked == [call EXCEPT !.transport_calls = @ + 1,
                                   !.handle = client,
                                   !.outcome = o]
       IN  calls' = [calls EXCEPT ![p] =
                  IF r.ok
                  THEN Accounted(invoked, r.value, o.latency)
                  ELSE IF invoked.transport_calls < 2
                  THEN invoked
                  ELSE [invoked EXCEPT !.pc = "failed",
                                       !.error = r.error,
                                       !.failed_in = "executing"]]
    /\ UNCHANGED <<clients, lookup>>

\* The rest of _call_api_* and of its wrapper: the provider is invoked
\* through the handle the client holds now, the response is checked, and
\* usage and cost are computed from it.
Transport(p, o) ==
    /\ calls[p].pc = "executing"
    /\ LET call == calls[p]
           client == clients[call.c].client
           r == CallApi(call.args.op, client, o)
           invoked == [call EXCEPT !.transport_calls = @ + 1,
                                   !.handle = client,
                                   !.outcome = o]
       IN  calls' = [calls EXCEPT ![p] =
                  IF r.ok
                  THEN Accounted(invoked, r.value, o.latency)
                  ELSE [invoked EXCEPT !.pc = "failed",
                                       !.error = r.error,
                                       !.failed_in = "executing"]]
    /\ UNCHANGED <<clients, lookup>>

\* The call returns or raises to its caller.
Return(p) ==
    /\ calls[p].pc \in {"done", "failed"}
    /\ calls' = [calls EXCEPT ![p] = IdleCall(calls[p].c)]
    /\ UNCHANGED <<clients, lookup>>

\* client = OpenAILLMClient(**a): the constructor runs the normalizer and
\* the gate on its own arguments; when it raises, no new client exists and
\* the name keeps the client it was bound to.
Construct(p, a) ==
    /\ calls[p].pc = "idle"
    /\ LET c == calls[p].c
           r == __init__(a)
           started == [IdleCall(c) EXCEPT
                          !.args = Args("__init__", a.messages, None,
                                        Kwargs(a.model_name, a.user, a.tools,
                                               a.tool_choice,
                                               a.reasoning_effort, <<>>), {}),
                          !.pre = clients[c]]
       IN  /\ clients' = IF r.ok THEN [clients EXCEPT ![c] = r.value]
                         ELSE clients
           /\ calls' = [calls EXCEPT ![p] =
                  IF r.ok THEN [started EXCEPT !.pc = "done"]
                  ELSE [started EXCEPT !.pc = "failed",
                                       !.error = r.error,
                                       !.failed_in = "constructing"]]
    /\ UNCHANGED lookup

\* resolve_model_name(inp) is called and its outcome kept.
Resolve(inp) ==
    /\ lookup' = [op |-> "resolve_model_name", inp |-> inp, alias |-> "",
                  result |-> resolve_model_name(inp)]
    /\ UNCHANGED <<clients, calls>>

\* get_provider(inp) is called and its outcome kept.
GetProvider(inp) ==
    /\ lookup' = [op |-> "get_provider", inp |-> inp, alias |-> "",
                  result |-> get_provider(inp)]
    /\ UNCHANGED <<clients, calls>>

\* The generator's extract_date(model, alias) is called and its result kept.
ScriptExtractDate(model, alias) ==
    /\ lookup' = [op |-> "script_extract_date", inp |-> model,
                  alias |-> alias,
                  result |-> Ok(script_extract_date(model, alias))]
    /\ UNCHANGED <<clients, calls>>

\* The generator computes the most recent id of one alias of its input.
MostRecent(model_ids, alias) ==
    /\ lookup' = [op |-> "most_recent_model", inp |-> model_ids,
                  alias |-> alias,
                  result |-> most_recent_model(model_ids, alias)]
    /\ UNCHANGED <<clients, calls>>

\* The capability generator computes its messaging lists.
MessageSupport(models_data) ==
    /\ lookup' = [op |-> "message_support", inp |-> models_data,
                  alias |-> "", result |-> Ok(message_support(models_data))]
    /\ UNCHANGED <<clients, calls>>

\* extract_date(model, alias) is called and its result kept.
ExtractDate(model, alias) ==
    /\ lookup' = [op |-> "extract_date", inp |-> model, alias |-> alias,
                  result |-> Ok(extract_date(model, alias))]
    /\ UNCHANGED <<clients, calls>>

(* ------------------------------------------------------------------ *)
(* Inputs                                                              *)
(* ------------------------------------------------------------------ *)

\* Constructor arguments.
Ctor(model_name, reasoning_effort, tools, use_async) ==
    [model_name |-> model_name, messages |-> None,
     reasoning_effort |-> reasoning_effort, tools |-> tools,
     tool_choice |-> None, user |-> None, use_async |-> use_async]

\* What the provider can do with one request.
Choice(content, parsed) == [content |-> content, parsed |-> parsed]

\* A completion with token counts, received after latency.
CompletionWith(choices, usage, latency) ==
    [raises |-> FALSE, choices |-> choices, usage |-> usage,
     latency |-> latency]

Completion(choices) ==
    CompletionWith(choices,
                   CompletionUsage(1000, PromptTokensDetails(0), 100), 1)

ProviderRaises ==
    [raises |-> TRUE, choices |-> <<>>, usage |-> None, latency |-> 1]

GoodCompletion == Completion(<<Choice(Str("hello"), [t |-> "BaseModel"])>>)

TransportOutcomes ==
    {ProviderRaises, Completion(<<>>)} \cup
    {Completion(<<Choice(content, parsed)>>) :
        content \in {None, Str(""), Str("hello")},
        parsed \in {None, [t |-> "BaseModel"]}}

\* The text of the message at position i of a conversation.
Texts == <<"t1", "t2", "t3", "t4", "t5", "t6">>

MessagesAt(i) ==
    {TextMessage(r, Texts[i]) : r \in Roles} \cup
    {ImageMessage(r, Texts[i], "auto") : r \in Roles}

\* Every conversation of k messages.
Conversations(k) ==
    {s \in [1..k -> UNION {MessagesAt(i) : i \in 1..k}] :
        \A i \in 1..k : s[i] \in MessagesAt(i)}

\* Inputs of the sequential specification.
SeqCtors ==
    {Ctor(m, e, t, ua) :
        m \in {Str("gpt-4o"), Str("o1"), Str("o1-mini")},
        e \in {None, Str("high")},
        t \in {None, List(<<Tool("t1")>>)},
        ua \in BOOLEAN}

SeqMessages ==
    {None, List(<<>>),
     List(<<TextMessage("user", "t1")>>),
     [t |-> "Message", v |-> TextMessage("user", "t1")],
     List(<<TextMessage("system", "t1"), TextMessage("user", "t2")>>),
     List(<<TextMessage("system", "t1"), TextMessage("developer", "t2")>>)}

SeqKwargs ==
    {Kwargs(m, None, None, None, e, <<>>) :
        m \in {None, Str("o1-mini")}, e \in {None, Str("high")}}

SeqArgs ==
    {Args(op, m, None, kw, {}) :
        op \in {"run", "run_async"}, m \in SeqMessages, kw \in SeqKwargs}
    \cup
    {Args(op, m, sm, kw, {}) :
        op \in {"run_structured", "run_structured_async"},
        m \in SeqMessages, kw \in SeqKwargs,
        sm \in {None, [t |-> "BaseModel"], [t |-> "type"]}}

\* Inputs of the concurrent specification.
ConcArgs ==
    {Args(op, m, None, NoKwargs, {}) :
        op \in {"run", "run_async"},
        m \in {List(<<>>), List(<<TextMessage("user", "t1")>>)}}
    \cup
    {Args(op, m, [t |-> "BaseModel"], NoKwargs, {}) :
        op \in {"run_structured", "run_structured_async"},
        m \in {List(<<>>), List(<<TextMessage("user", "t1")>>)}}

ConcOutcomes == {ProviderRaises, Completion(<<>>), GoodCompletion}

\* Inputs of the normalizer specification: every model of the registry
\* with every conversation of at most MaxLen messages.
NormMessages ==
    {None} \cup {[t |-> "Message", v |-> m] : m \in MessagesAt(1)} \cup
    {List(s) : s \in UNION {Conversations(k) : k \in 0..MaxLen}}

NormArgs ==
    {Args("run", m, None, Kwargs(Str(model), None, None, None, None, <<>>), {}) :
        m \in NormMessages, model \in ModelName}

\* Inputs of the gate specification.  "gpt-3.5-turbo" is a model name
\* outside the registry; the malformed tool entries lack a description
\* (an object) or a name (a dict).
UnknownModel == "gpt-3.5-turbo"

NoDescription == ToolEntry("object", "x", TRUE, FALSE)

NoName == ToolEntry("dict", "y", FALSE, TRUE)

GateCtors ==
    {[Ctor(Str(m), e, t, FALSE) EXCEPT !.tool_choice = tc] :
        m \in {"gpt-4o", "o1", UnknownModel},
        e \in {None, Str("high")},
        t \in {None, List(<<Tool("a")>>), List(<<Tool("a"), NoDescription>>),
               List(<<NoName>>)},
        tc \in {None, ToolChoice(Str("a"))}}

GateTools ==
    {None, List(<<>>), List(<<Tool("c")>>),
     List(<<Tool("c"), NoDescription>>), List(<<NoName>>)}

GateKwargs ==
    {Kwargs(m, None, t, tc, e, <<>>) :
        m \in {None, Str("o1-mini")},
        t \in GateTools,
        tc \in {None, Str("auto"), ToolChoice(Str("c"))},
        e \in {None, Str("high")}}

\* A structured_model argument: an instance of a BaseModel subclass, a
\* BaseModel subclass itself, or a str.
Schemas == {[t |-> "BaseModel"], [t |-> "type"], Str("schema")}

GateArgs ==
    {Args("run", m, None, kw, {}) :
        m \in {List(<<>>), List(<<TextMessage("user", "t1")>>)},
        kw \in GateKwargs}
    \cup
    {Args("run_structured", m, sm, kw, {}) :
        m \in {List(<<>>), List(<<TextMessage("user", "t1")>>)},
        kw \in GateKwargs, sm \in Schemas}

\* Inputs of the merger specification: clients with and without default
\* tools, tool_choice (a mapping), user and construction-time messages,
\* called with overrides, unrecognized keys and every set of merge flags.
MergeCtors ==
    {[Ctor(Str("gpt-4o"), None, t, FALSE) EXCEPT
          !.messages = m, !.tool_choice = tc, !.user = u] :
        m \in {None, List(<<TextMessage("system", "t1")>>)},
        t \in {None, List(<<Tool("a"), Tool("b")>>)},
        tc \in {None, Dict([type |-> "function", function_name |-> Str("a")])},
        u \in {None, Str("u1")}}

MergeFlagSets == SUBSET {"messages", "tools", "tool_choice", "user"}

MergeKwargs ==
    {Kwargs(None, u, t, tc, None, x) :
        u \in {None, Str("u2")},
        t \in {None, List(<<Tool("c")>>)},
        tc \in {None, Str("auto"), Dict([function_name |-> Str("c")])},
        x \in {<<>>, [temperature |-> Str("0.2")]}}

MergeArgs ==
    {Args("run", m, None, kw, flags) :
        m \in {None, List(<<TextMessage("user", "t2")>>)},
        kw \in MergeKwargs, flags \in MergeFlagSets}

\* Inputs of the frame specification: clients with default tools,
\* tool_choice, user and, for o1, reasoning_effort; calls of the four
\* operations that override the model, the tools and the tool_choice, with
\* and without the merge flags.
FrameCtors ==
    {[Ctor(Str(model), effort,
           List(<<Tool("a")>>), FALSE) EXCEPT
          !.tool_choice =
              Dict([type |-> "function", function_name |-> Str("a")]),
          !.user = Str("u1")] :
        model \in {"gpt-4o"}, effort \in {None}} \cup
    {[Ctor(Str("o1"), Str("low"), None, FALSE) EXCEPT !.user = Str("u1")]}

FrameKwargs ==
    {Kwargs(model, None, tools, tool_choice, None, <<>>) :
        model \in {None, Str("o1-mini")},
        tools \in {None, List(<<Tool("c")>>)},
        tool_choice \in {None, Dict([function_name |-> Str("c")])}}

FrameArgs ==
    {Args(op, List(<<TextMessage("user", "t1")>>),
          IF IsStructured(op) THEN [t |-> "BaseModel"] ELSE None,
          kw, flags) :
        op \in Ops, kw \in FrameKwargs,
        flags \in {{}, {"tools", "tool_choice"}}}

\* Inputs of the accounting specification: calls of the four operations on
\* a gpt-4o client, with the model of the client, a dearer one, one priced
\* 0.0 or one without a pricing entry, with every combination of
\* return_usage and return_cost; and completions with and without token
\* counts, received after different latencies.
AccountModels ==
    {None, Str("o1"), Str("claude-3-opus"), Str("gpt-4o-12-17-24")}

AccountArgs ==
    {Returning(Args(op, List(<<TextMessage("user", "t1")>>),
                    IF IsStructured(op) THEN [t |-> "BaseModel"] ELSE None,
                    Kwargs(model, None, None, None, None, <<>>), {}),
               return_usage, return_cost) :
        op \in Ops, model \in AccountModels,
        return_usage \in BOOLEAN, return_cost \in BOOLEAN}

AccountUsages ==
    {None} \cup
    {CompletionUsage(prompt_tokens, details, completion_tokens) :
        prompt_tokens \in {0, 1000000, 2000000},
        details \in {None, PromptTokensDetails(0),
                     PromptTokensDetails(500000)},
        completion_tokens \in {0, 100000}}

AccountOutcomes ==
    {CompletionWith(GoodCompletion.choices, usage, latency) :
        usage \in AccountUsages, latency \in {1, 2}}

\* Inputs of the resolver specification: every alias and versioned id of
\* the registry and two tokens outside it.
Aliases == Elements(ModelAlias)

VersionedIds ==
    UNION {Elements(MODEL_DEFINITIONS[a]["model_ids"]) : a \in Aliases}

ResolveTokens == Aliases \cup VersionedIds \cup {"gpt-5", "gpt-4o-latest"}

\* Inputs of the generator specification. Model ids are given as their
\* characters: the alias, a hyphen, and a suffix of hyphen-separated parts.
DateParts ==
    {<<"0", "1">>, <<"1", "2">>, <<"2", "4">>, <<"2", "0", "2", "5">>,
     <<"x">>, <<>>,
     <<"2", "0", "2", "4", "1", "2", "0", "1">>,
     <<"2", "0", "2", "4", "1", "2", "0", "x">>,
     <<"+", "2", "0", "2", "4", "1", "2", "0">>,
     <<"+", "1">>}

\* "-".join(parts)
RECURSIVE Join(_)
Join(parts) ==
    IF Len(parts) = 0 THEN <<>>
    ELSE IF Len(parts) = 1 THEN parts[1]
    ELSE parts[1] \o <<"-">> \o Join(Tail(parts))

Suffixes ==
    UNION {{Join(parts) : parts \in [1..k -> DateParts]} : k \in 1..MaxParts}

GenAlias == "o1"

IdOf(alias, suffix) == Chars(alias) \o <<"-">> \o suffix

\* The suffixes of the ids listed under one alias: 01-12-24, 12-01-24,
\* 20241201 (the same day as 12-01-24), 12-01-2025, and two without a date.
ListedSuffixes ==
    {Join(<<<<"0", "1">>, <<"1", "2">>, <<"2", "4">>>>),
     Join(<<<<"1", "2">>, <<"0", "1">>, <<"2", "4">>>>),
     <<"2", "0", "2", "4", "1", "2", "0", "1">>,
     Join(<<<<"1", "2">>, <<"0", "1">>, <<"2", "0", "2", "5">>>>),
     <<"x">>,
     Join(<<<<"x">>, <<"x">>>>)}

\* The capability generator's input: one or two models of the registry,
\* each with any setting of the two messaging flags.
ModelEntries ==
    {ModelEntry(alias, MODEL_DEFINITIONS[alias]["model_ids"],
                developer_message, system_message) :
        alias \in {"gpt-4o", "o1", "o1-mini"},
        developer_message \in BOOLEAN, system_message \in BOOLEAN}

ModelsData ==
    {<<m>> : m \in ModelEntries} \cup
    {pair \in ModelEntries \X ModelEntries : pair[1].alias # pair[2].alias}

ModelIdLists ==
    UNION {[1..k -> {IdOf(GenAlias, suffix) : suffix \in ListedSuffixes}] :
              k \in 0..MaxIds}

(* ------------------------------------------------------------------ *)
(* Specifications                                                      *)
(* ------------------------------------------------------------------ *)

\* No other call is in progress.
Alone(p) == \A q \in Procs \ {p} : calls[q].pc = "idle"

\* Sequential calls on client 1.
Init ==
    \E a \in SeqCtors :
        /\ __init__(a).ok
        /\ clients = [c \in Clients |-> __init__(a).value]
        /\ calls = [p \in Procs |-> IdleCall(1)]
        /\ lookup = NoLookup

Start(p) == Alone(p) /\ \E a \in SeqArgs : Call(p, a)

Execute(p) == Alone(p) /\ \E o \in TransportOutcomes : Transport(p, o)

Finish(p) == Alone(p) /\ Return(p)

Next == \E p \in Procs : Start(p) \/ Execute(p) \/ Finish(p)

Spec == Init /\ [][Next]_vars

\* Two callers whose calls interleave; each caller is bound to one client,
\* the same one or two different ones.
InitConcurrent ==
    \E ua \in [Clients -> BOOLEAN], target \in [Procs -> Clients] :
        /\ clients = [c \in Clients |->
               __init__(Ctor(Str("gpt-4o"), None, None, ua[c])).value]
        /\ calls = [p \in Procs |-> IdleCall(target[p])]
        /\ lookup = NoLookup

StartConcurrent(p) == \E a \in ConcArgs : Call(p, a)

ExecuteConcurrent(p) == \E o \in ConcOutcomes : Transport(p, o)

NextConcurrent ==
    \E p \in Procs : StartConcurrent(p) \/ ExecuteConcurrent(p) \/ Return(p)

SpecConcurrent == InitConcurrent /\ [][NextConcurrent]_vars

\* The normalizer on every model and conversation.
InitNormalize ==
    /\ clients = [c \in Clients |->
           __init__(Ctor(Str("gpt-4o"), None, None, FALSE)).value]
    /\ calls = [p \in Procs |-> IdleCall(1)]
    /\ lookup = NoLookup

StartNormalize(p) == Alone(p) /\ \E a \in NormArgs : Call(p, a)

ExecuteNormalize(p) == Alone(p) /\ Transport(p, GoodCompletion)

NextNormalize ==
    \E p \in {1} : StartNormalize(p) \/ ExecuteNormalize(p) \/ Finish(p)

SpecNormalize == InitNormalize /\ [][NextNormalize]_vars

\* The gate: clients are constructed and called with every combination of
\* the optional features.
InitGate ==
    /\ clients = [c \in Clients |->
           __init__(Ctor(Str("o1"), None, None, FALSE)).value]
    /\ calls = [p \in Procs |-> IdleCall(1)]
    /\ lookup = NoLookup

ConstructGate(p) == Alone(p) /\ \E a \in GateCtors : Construct(p, a)

StartGate(p) == Alone(p) /\ \E a \in GateArgs : Call(p, a)

ExecuteGate(p) == Alone(p) /\ Transport(p, GoodCompletion)

NextGate ==
    \E p \in {1} :
        ConstructGate(p) \/ StartGate(p) \/ ExecuteGate(p) \/ Finish(p)

SpecGate == InitGate /\ [][NextGate]_vars

\* The merger: calls with overrides and merge flags on clients with
\* defaults.
InitMerge ==
    \E a \in MergeCtors :
        /\ __init__(a).ok
        /\ clients = [c \in Clients |-> __init__(a).value]
        /\ calls = [p \in Procs |-> IdleCall(1)]
        /\ lookup = NoLookup

StartMerge(p) == Alone(p) /\ \E a \in MergeArgs : Call(p, a)

ExecuteMerge(p) == Alone(p) /\ Transport(p, GoodCompletion)

NextMerge == \E p \in {1} : StartMerge(p) \/ ExecuteMerge(p) \/ Finish(p)

SpecMerge == InitMerge /\ [][NextMerge]_vars

\* Calls one after another on one client; a finished call stays on view
\* until its caller takes the result.
InitFrame ==
    \E a \in FrameCtors :
        /\ __init__(a).ok
        /\ clients = [c \in Clients |-> __init__(a).value]
        /\ calls = [p \in Procs |-> IdleCall(1)]
        /\ lookup = NoLookup

NoneRunning(p) ==
    \A q \in Procs \ {p} : calls[q].pc \in {"idle", "done", "failed"}

StartFrame(p) == NoneRunning(p) /\ \E a \in FrameArgs : Call(p, a)

ExecuteFrame(p) == Transport(p, GoodCompletion)

FinishFrame(p) == Return(p)

NextFrame ==
    \E p \in Procs : StartFrame(p) \/ ExecuteFrame(p) \/ FinishFrame(p)

SpecFrame == InitFrame /\ [][NextFrame]_vars

\* The accountant: one call at a time, with the provider's token counts.
InitAccount ==
    /\ clients = [c \in Clients |->
           __init__(Ctor(Str("gpt-4o"), None, None, FALSE)).value]
    /\ calls = [p \in Procs |-> IdleCall(1)]
    /\ lookup = NoLookup

StartAccount(p) == Alone(p) /\ \E a \in AccountArgs : Call(p, a)

ExecuteAccount(p) == Alone(p) /\ \E o \in AccountOutcomes : Transport(p, o)

NextAccount ==
    \E p \in {1} : StartAccount(p) \/ ExecuteAccount(p) \/ Finish(p)

SpecAccount == InitAccount /\ [][NextAccount]_vars

\* The resolver: lookups in the registry, with no call in progress.
InitResolve ==
    /\ clients = [c \in Clients |->
           __init__(Ctor(Str("gpt-4o"), None, None, FALSE)).value]
    /\ calls = [p \in Procs |-> IdleCall(1)]
    /\ lookup = NoLookup

NextResolve ==
    \/ \E inp \in ResolveTokens : Resolve(inp)
    \/ \E inp \in ResolveTokens : GetProvider(inp)
    \/ \E model \in ResolveTokens \ Aliases, alias \in Aliases :
           ExtractDate(model, alias)

SpecResolve == InitResolve /\ [][NextResolve]_vars

\* The table generators: a date is extracted from an id, the most recent
\* id of an alias is computed, or the messaging lists are computed, with no
\* call in progress.
InitGenerate ==
    /\ clients = [c \in Clients |->
           __init__(Ctor(Str("gpt-4o"), None, None, FALSE)).value]
    /\ calls = [p \in Procs |-> IdleCall(1)]
    /\ lookup = NoLookup

\* One run of the generator, or one call of a date function, per behaviour.
NotRun == lookup = NoLookup

NextGenerate ==
    \/ NotRun /\ \E suffix \in Suffixes :
           ExtractDate(IdOf(GenAlias, suffix), GenAlias)
    \/ NotRun /\ \E suffix \in Suffixes :
           ScriptExtractDate(IdOf(GenAlias, suffix), GenAlias)
    \/ NotRun /\ \E model_ids \in ModelIdLists :
           MostRecent(model_ids, GenAlias)
    \/ NotRun /\ \E models_data \in ModelsData : MessageSupport(models_data)

SpecGenerate == InitGenerate /\ [][NextGenerate]_vars

(* ------------------------------------------------------------------ *)
(* Properties                                                          *)
(* ------------------------------------------------------------------ *)

\* The call of slot p has ended (returned or raised) and not yet been
\* handed back to its caller.
Ended(p) == calls[p].pc \in {"done", "failed"}

\* The error types that validation raises.
ValidationErrors ==
    {"MessagesNotProvidedError", "InvalidMessageError", "ValidationError",
     "ValueError", "ToolsNotSupportedError",
     "ReasoningEffortNotSupportedError", "StructuredOutputNotSupportedError"}

\* C1: every call invokes the provider transport zero times when validation
\* raises and exactly once otherwise; a call whose invocation failed is
\* terminal: it is never invoked a second time and only returns to its caller.
C1_TransportExactlyOnce ==
    /\ [](\A p \in Procs :
            /\ calls[p].transport_calls <= 1
            /\ calls[p].pc \in {"idle", "executing"} =>
                   calls[p].transport_calls = 0
            /\ Ended(p) =>
                   calls[p].transport_calls =
                       IF calls[p].error.type \in ValidationErrors THEN 0 ELSE 1)
    /\ [][\A p \in Procs :
            calls[p].pc = "failed" => calls'[p].pc \in {"failed", "idle"}]_vars

\* C1 witness: a call whose single transport invocation raised.
C1_Witness ==
    \E p \in Procs :
        /\ calls[p].pc = "failed"
        /\ calls[p].outcome = ProviderRaises
        /\ calls[p].transport_calls = 1

\* C2: in each of the four call modes, an exception thrown by the provider
\* transport reaches the caller as LLMResponseCompletionError.
C2_TransportErrorWrapped ==
    \A p \in Procs :
        (calls[p].transport_calls > 0 /\ calls[p].outcome.raises) =>
            /\ calls[p].pc = "failed"
            /\ calls[p].error.type = "LLMResponseCompletionError"

\* C2 witness: an async call whose transport invocation raised.
C2_Witness ==
    \E p \in Procs :
        /\ calls[p].args.op = "run_async"
        /\ calls[p].transport_calls = 1
        /\ calls[p].outcome.raises
        /\ calls[p].error.type = "LLMResponseCompletionError"

\* The completion o has no choice, or its first choice has no content
\* (plain operations) or no parsed payload (structured operations).
EmptyCompletion(op, o) ==
    /\ ~o.raises
    /\ \/ Len(o.choices) = 0
       \/ IF IsStructured(op) THEN ~Truthy(o.choices[1].parsed)
          ELSE ~Truthy(o.choices[1].content)

\* C3: in each of the four call modes, a response without a completion
\* choice, or whose first choice is empty, ends the call with
\* LLMResponseCompletionError or LLMResponseParseError and nothing else.
C3_EmptyResponseRejected ==
    \A p \in Procs :
        (calls[p].transport_calls > 0 /\
         EmptyCompletion(calls[p].args.op, calls[p].outcome)) =>
            /\ calls[p].pc = "failed"
            /\ calls[p].error.type \in
                   {"LLMResponseCompletionError", "LLMResponseParseError"}

\* C4: under sequential calls the client is reinitialized in the requested
\* mode before the transport is invoked: the handle used is of the calling
\* operation's mode, the tag always matches the held handle, and a call
\* that the provider answers well does not fail.
C4_LazyModeSwitch ==
    /\ \A c \in Clients :
           clients[c].client = _init_client(clients[c].use_async)
    /\ \A p \in Procs :
           calls[p].transport_calls > 0 =>
               /\ calls[p].handle = HandleOf(calls[p].args.op)
               /\ calls[p].error.type \notin {"AttributeError", "TypeError"}
               /\ calls[p].outcome = GoodCompletion => calls[p].pc = "done"

\* C4 witness: a call in the mode opposite to the client's tag succeeded.
C4_Witness ==
    \E p \in Procs :
        /\ calls[p].pc = "done"
        /\ calls[p].pre.use_async # IsAsync(calls[p].args.op)
        /\ clients[calls[p].c].use_async = IsAsync(calls[p].args.op)

\* C5: when the two concurrent calls use two separate client instances, no
\* call invokes the transport through a handle of the other mode.
C5_SeparateClientsNoRace ==
    calls[1].c # calls[2].c =>
        \A p \in Procs :
            calls[p].transport_calls > 0 =>
                calls[p].handle = HandleOf(calls[p].args.op)

\* C5 witness: on one shared client a sync call and an async call are in
\* progress together and one of them has invoked the transport through a
\* handle of the other's mode.
C5_Witness ==
    /\ calls[1].c = calls[2].c
    /\ \E p, q \in Procs :
           /\ p # q
           /\ calls[p].transport_calls > 0
           /\ calls[p].handle # HandleOf(calls[p].args.op)
           /\ calls[q].pc # "idle"
           /\ IsAsync(calls[q].args.op) # IsAsync(calls[p].args.op)

\* C6: a call that fails validation leaves the client as it was before the
\* call: same sync/async tag, same transport handle, same default parameters.
C6_FailedValidationNoSideEffect ==
    \A p \in Procs :
        (calls[p].pc = "failed" /\ calls[p].failed_in = "validating") =>
            clients[calls[p].c] = calls[p].pre

\* The model a call is validated against: the per-call model if given,
\* else the client's.
EffectiveModel(p) ==
    IF IsNone(calls[p].args.kwargs.model)
    THEN calls[p].pre.model_name.v
    ELSE calls[p].args.kwargs.model.v

\* C7: a call whose messages are empty or absent raises the no-messages
\* error naming the model, and the transport is never invoked for it.
C7_NoMessagesError ==
    \A p \in Procs :
        (calls[p].pc # "idle" /\ ~Truthy(calls[p].args.messages)) =>
            /\ calls[p].pc = "failed"
            /\ calls[p].error.type = "MessagesNotProvidedError"
            /\ calls[p].error.model = EffectiveModel(p)
            /\ calls[p].transport_calls = 0

\* The conversation passed to the call of slot p, as a sequence.
InputMessages(p) ==
    IF calls[p].args.messages.t = "Message"
    THEN <<calls[p].args.messages.v>>
    ELSE IF calls[p].args.messages.t = "list"
    THEN calls[p].args.messages.v
    ELSE <<>>

\* The positions of a conversation that hold a message of the given role.
Positions(msgs, role) == {i \in 1..Len(msgs) : msgs[i].role = role}

\* C8: normalize raises InvalidMessageError when the conversation holds
\* more than one system message, more than one developer message, or a
\* system and a developer message together, and only then.
C8_InstructionCardinality ==
    \A p \in Procs :
        calls[p].pc # "idle" =>
            LET nsys == Cardinality(Positions(InputMessages(p), "system"))
                ndev == Cardinality(Positions(InputMessages(p), "developer"))
            IN  (calls[p].error.type = "InvalidMessageError") <=>
                    (nsys > 1 \/ ndev > 1 \/ (nsys >= 1 /\ ndev >= 1))

\* C8 witness: [system_msg, developer_msg] was rejected.
C8_Witness ==
    \E p \in Procs :
        /\ calls[p].pc = "failed"
        /\ calls[p].error.type = "InvalidMessageError"
        /\ Len(InputMessages(p)) = 2
        /\ InputMessages(p)[1].role = "system"
        /\ InputMessages(p)[2].role = "developer"

\* The role the claim gives an instruction message of the given role on
\* the given model.
ExpectedRole(role, model) ==
    IF role = "system"
    THEN IF model \in DEVELOPER_MESSAGE_SUPPORTED_MODELS /\
            model \notin SYSTEM_MESSAGE_SUPPORTED_MODELS
         THEN "developer"
         ELSE IF model \in ONLY_USER_MESSAGE_SUPPORTED_MODELS THEN "user"
         ELSE "system"
    ELSE IF model \in SYSTEM_MESSAGE_SUPPORTED_MODELS /\
            model \notin DEVELOPER_MESSAGE_SUPPORTED_MODELS
         THEN "system"
         ELSE IF model \in ONLY_USER_MESSAGE_SUPPORTED_MODELS THEN "user"
         ELSE "developer"

\* C9: with exactly one instruction-role message, normalize gives it the
\* role the model supports (system -> developer or user, developer ->
\* system or user) and leaves it unchanged in role and content when the
\* model supports its role.
C9_RoleRemapping ==
    \A p \in Procs :
        calls[p].pc \in {"executing", "done"} =>
            \A i \in Positions(InputMessages(p), "system") \cup
                      Positions(InputMessages(p), "developer") :
                calls[p].validated.messages.v[i] =
                    WithRole(InputMessages(p)[i],
                             ExpectedRole(InputMessages(p)[i].role,
                                          EffectiveModel(p)))

\* C9 witness: a system message was rewritten to developer for a model
\* that supports developer instructions.
C9_Witness ==
    \E p \in Procs :
        /\ calls[p].pc = "executing"
        /\ EffectiveModel(p) = "o1"
        /\ Len(InputMessages(p)) = 2
        /\ InputMessages(p)[2].role = "system"
        /\ calls[p].validated.messages.v[2].role = "developer"

\* The content of a shaped message: the text, or the image reference.
ShapedContent(block) ==
    IF block.type = "text" THEN <<"text", block.text>>
    ELSE <<"image", block.image_url.url, block.image_url.detail>>

\* The content of a message.
MessageContent(m) ==
    IF m.type = "TextMessage" THEN <<"text", m.text>>
    ELSE <<"image", m.image_url, m.image_detail>>

\* C10: normalizing and shaping keeps the length of the conversation, the
\* content at every position and the role at every position that does not
\* hold the instruction-role message.
C10_OrderAndCountPreserved ==
    \A p \in Procs :
        calls[p].pc \in {"executing", "done"} =>
            LET inp == InputMessages(p)
                out == calls[p].shaped.messages
            IN  /\ Len(out) = Len(inp)
                /\ \A i \in 1..Len(inp) :
                       /\ Len(out[i].content) = 1
                       /\ ShapedContent(out[i].content[1]) = MessageContent(inp[i])
                       /\ inp[i].role \in {"user", "assistant"} =>
                              out[i].role = inp[i].role

\* C10 witness: a two-message conversation holding an image message and an
\* instruction message that was rewritten has been shaped.
C10_Witness ==
    \E p \in Procs :
        /\ calls[p].pc = "executing"
        /\ Len(InputMessages(p)) = 2
        /\ InputMessages(p)[1].type = "ImageMessage"
        /\ InputMessages(p)[1].role = "assistant"
        /\ InputMessages(p)[2].role = "developer"
        /\ calls[p].shaped.messages[2].role = "user"

\* The optional features, their supported-model sets and their errors.
Features == {"reasoning_effort", "tools", "structured_model"}

SupportedModels(f) ==
    CASE f = "reasoning_effort" -> REASONING_EFFORT_SUPPORTED_MODELS
      [] f = "tools" -> FUNCTION_CALL_SUPPORTED_MODELS
      [] f = "structured_model" -> STRUCTURED_OUTPUT_SUPPORTED_MODELS

FeatureError(f) ==
    CASE f = "reasoning_effort" -> "ReasoningEffortNotSupportedError"
      [] f = "tools" -> "ToolsNotSupportedError"
      [] f = "structured_model" -> "StructuredOutputNotSupportedError"

\* The value of a parameter the operation of slot p runs with when no merge
\* flag is set: its own argument if given, else the client's default (a
\* constructor has only its own arguments).
Effective(p, f) ==
    IF calls[p].args.op = "__init__" \/ ~IsNone(calls[p].args.kwargs[f])
    THEN calls[p].args.kwargs[f]
    ELSE calls[p].pre[f]

\* The operation of slot p requests feature f.
Requests(p, f) ==
    IF f = "structured_model" THEN ~IsNone(calls[p].args.structured_model)
    ELSE ~IsNone(Effective(p, f))

\* Some entry of the tools list lacks a name or a description.
Malformed(tools) ==
    /\ IsList(tools)
    /\ \E i \in 1..Len(tools.v) :
           ~tools.v[i].has_name \/ ~tools.v[i].has_description

\* Apart from feature f, nothing in the operation of slot p is invalid: its
\* messages are accepted (a constructor needs none), its model is one a call
\* accepts, its tools are well formed and no other feature is requested on
\* a model that lacks it.
OnlyFault(p, f) ==
    LET isInit == calls[p].args.op = "__init__"
        msgs == InputMessages(p)
        nsys == Cardinality(Positions(msgs, "system"))
        ndev == Cardinality(Positions(msgs, "developer"))
    IN  /\ isInit \/ Len(msgs) > 0
        /\ nsys + ndev <= 1
        /\ isInit \/ EffectiveModel(p) \in ModelName
        /\ ~Malformed(Effective(p, "tools"))
        /\ \A g \in Features \ {f} :
               ~(Requests(p, g) /\ EffectiveModel(p) \notin SupportedModels(g))

\* C11: for each optional feature f (reasoning_effort, tools, structured
\* output schema), an operation that requests f on a model outside f's
\* supported-model set fails before the transport is invoked, with f's
\* not-supported error when nothing else in it is invalid; an operation that
\* does not request f never raises f's error.
C11_FeatureGate ==
    \A p \in Procs : \A f \in Features :
        calls[p].pc # "idle" =>
            /\ (Requests(p, f) /\ EffectiveModel(p) \notin SupportedModels(f)) =>
                   /\ calls[p].pc = "failed"
                   /\ calls[p].error.type \in ValidationErrors
                   /\ calls[p].transport_calls = 0
                   /\ OnlyFault(p, f) =>
                          calls[p].error.type = FeatureError(f)
            /\ ~Requests(p, f) => calls[p].error.type # FeatureError(f)

\* C11 witness: a call on model "o1-mini" with reasoning_effort="high" has
\* raised ReasoningEffortNotSupportedError.
C11_Witness ==
    \E p \in Procs :
        /\ calls[p].args.op = "run"
        /\ calls[p].args.kwargs.model = Str("o1-mini")
        /\ calls[p].args.kwargs.reasoning_effort = Str("high")
        /\ calls[p].pc = "failed"
        /\ calls[p].error.type = "ReasoningEffortNotSupportedError"

\* The generic validation errors: ValueError, and pydantic's
\* ValidationError, which is a ValueError.
GenericValidationErrors == {"ValueError", "ValidationError"}

\* C12: for every model of the registry, an operation whose tools list
\* holds an entry lacking a name or a description never succeeds, never
\* reaches the transport and never ends in ToolsNotSupportedError; a call
\* ends with the generic validation error, and so does a constructor in
\* which nothing else is invalid.
C12_MalformedToolRejected ==
    \A p \in Procs :
        (calls[p].pc # "idle" /\ Malformed(Effective(p, "tools")) /\
         EffectiveModel(p) \in ModelName) =>
            /\ calls[p].pc = "failed"
            /\ calls[p].transport_calls = 0
            /\ calls[p].error.type # "ToolsNotSupportedError"
            /\ calls[p].args.op # "__init__" =>
                   calls[p].error.type \in GenericValidationErrors
            /\ OnlyFault(p, "tools") =>
                   calls[p].error.type \in GenericValidationErrors

\* C12 witness: a call with valid messages whose tools hold an entry
\* without a description has ended with the validation error.
C12_Witness ==
    \E p \in Procs :
        /\ calls[p].args.op = "run"
        /\ calls[p].args.kwargs.tools = List(<<Tool("c"), NoDescription>>)
        /\ Len(InputMessages(p)) = 1
        /\ calls[p].pc = "failed"
        /\ calls[p].error.type \in GenericValidationErrors

IsDataModelType(schema) == schema.t = "type"

\* C14: a structured call on a model that supports structured output, with
\* nothing else invalid, passes validation exactly when its schema is a
\* data-model type; a schema of any other kind raises a validation error
\* before the transport is invoked.
C14_SchemaMustBeDataModel ==
    \A p \in Procs :
        (calls[p].pc # "idle" /\ calls[p].args.op = "run_structured" /\
         OnlyFault(p, "structured_model") /\
         EffectiveModel(p) \in STRUCTURED_OUTPUT_SUPPORTED_MODELS) =>
            IF IsDataModelType(calls[p].args.structured_model)
            THEN calls[p].pc \in {"executing", "done"}
            ELSE /\ calls[p].pc = "failed"
                 /\ calls[p].error.type \in GenericValidationErrors
                 /\ calls[p].transport_calls = 0

\* The error of slot p is a capability-mismatch error.
CapabilityMismatch(p) ==
    /\ calls[p].pc = "failed"
    /\ \E f \in Features : calls[p].error.type = FeatureError(f)

\* C15: every capability-mismatch error names the model the operation was
\* validated against (the per-call model if given, else the client's) and
\* the supported-model set of the feature it is about.
C15_ErrorNamesEffectiveModel ==
    \A p \in Procs : \A f \in Features :
        (CapabilityMismatch(p) /\ calls[p].error.type = FeatureError(f)) =>
            NotSupportedMessage(calls[p].error) =
                [model |-> EffectiveModel(p), supported |-> SupportedModels(f)]

\* C15 witness: a client whose default model is "o1" was called with model
\* "o1-mini" and the default reasoning effort, and the error names "o1-mini".
C15_Witness ==
    \E p \in Procs :
        /\ CapabilityMismatch(p)
        /\ calls[p].args.op = "run"
        /\ calls[p].pre.model_name = Str("o1")
        /\ calls[p].pre.reasoning_effort = Str("high")
        /\ IsNone(calls[p].args.kwargs.reasoning_effort)
        /\ calls[p].args.kwargs.model = Str("o1-mini")
        /\ calls[p].error.model = "o1-mini"

\* The recognized call-parameter fields.
Recognized ==
    {"messages", "model", "user", "tools", "tool_choice",
     "reasoning_effort", "structured_model"}

\* The client default of a field before the call of slot p (absent for a
\* field the client keeps no default of) and the override the call gave.
ClientDefault(p, f) ==
    CASE f = "model" -> calls[p].pre.model_name
      [] f \in {"user", "tools", "tool_choice", "reasoning_effort"} ->
             calls[p].pre[f]
      [] OTHER -> None

Override(p, f) ==
    IF f = "messages" THEN calls[p].args.messages ELSE calls[p].args.kwargs[f]

\* The effective value the claim gives field f of the call of slot p.
MergedValue(p, f) ==
    LET d == ClientDefault(p, f)
        o == Override(p, f)
        combine == f \in calls[p].args.merge /\ ~IsNone(d) /\ ~IsNone(o)
    IN  IF combine /\ d.t = "list" /\ o.t = "list"
        THEN List(d.v \o o.v)
        ELSE IF combine /\ d.t = "dict" /\ o.t = "dict"
        THEN Dict([k \in (DOMAIN d.v) \cup (DOMAIN o.v) |->
                      IF k \in DOMAIN o.v THEN o.v[k] ELSE d.v[k]])
        ELSE IF ~IsNone(o) THEN o
        ELSE d

\* C16: for every recognized field, the merged value is the default
\* followed by the override when the field's merge flag is true and both
\* are sequences, their union with the override's keys winning when both
\* are mappings, and otherwise the override if present, else the default,
\* else absent; the parameters merge returns hold these values (a mapping
\* given as tool_choice as the ToolChoice object with the same fields).
C16_MergeSemantics ==
    \A p \in Procs :
        (calls[p].pc # "idle" /\ calls[p].args.op # "__init__") =>
            /\ \A f \in Recognized : calls[p].merged[f] = MergedValue(p, f)
            /\ ~IsNone(calls[p].params) =>
                   /\ \A f \in Recognized \ {"tool_choice"} :
                          calls[p].params.v[f] = MergedValue(p, f)
                   /\ IF MergedValue(p, "tool_choice").t = "dict"
                      THEN /\ calls[p].params.v.tool_choice.t = "ToolChoice"
                           /\ \A k \in DOMAIN MergedValue(p, "tool_choice").v :
                                  calls[p].params.v.tool_choice.v[k] =
                                      MergedValue(p, "tool_choice").v[k]
                      ELSE calls[p].params.v.tool_choice =
                               MergedValue(p, "tool_choice")

\* C16 witness: default tools [a, b] and override tools [c] with the tools
\* flag true were merged to [a, b, c].
C16_Witness ==
    \E p \in Procs :
        /\ calls[p].pc = "executing"
        /\ calls[p].pre.tools = List(<<Tool("a"), Tool("b")>>)
        /\ calls[p].args.kwargs.tools = List(<<Tool("c")>>)
        /\ "tools" \in calls[p].args.merge
        /\ calls[p].params.v.tools = List(<<Tool("a"), Tool("b"), Tool("c")>>)

\* C17: every key of the runtime overrides that is not a recognized field
\* is in the call parameters that merge returns, with the same value.
C17_UnrecognizedKeysPassThrough ==
    \A p \in Procs :
        ~IsNone(calls[p].params) =>
            \A k \in DOMAIN calls[p].args.kwargs.extra :
                /\ k \in DOMAIN calls[p].params.v
                /\ calls[p].params.v[k] = calls[p].args.kwargs.extra[k]

\* C18: the effective messages of every call are the messages passed to
\* that call, whatever the merge flags and whatever messages the client was
\* constructed with: the merged messages are the call's own, the validated
\* conversation holds the same messages in the same order, and a call
\* without messages fails instead of using the client's.
C18_MessagesNeverDefaulted ==
    \A p \in Procs :
        (calls[p].pc # "idle" /\ calls[p].args.op # "__init__") =>
            /\ calls[p].merged.messages = calls[p].args.messages
            /\ ~IsNone(calls[p].params) =>
                   calls[p].params.v.messages = calls[p].args.messages
            /\ calls[p].pc \in {"executing", "done"} =>
                   /\ Len(calls[p].validated.messages.v) = Len(InputMessages(p))
                   /\ \A i \in 1..Len(InputMessages(p)) :
                          MessageContent(calls[p].validated.messages.v[i]) =
                              MessageContent(InputMessages(p)[i])
            /\ IsNone(calls[p].args.messages) =>
                   calls[p].pc = "failed" /\ calls[p].transport_calls = 0

\* C18 witness: a client constructed with a system message was called with
\* one user message and the messages flag true, and the validated
\* conversation is that user message alone.
C18_Witness ==
    \E p \in Procs :
        /\ calls[p].pc = "executing"
        /\ calls[p].pre.messages = List(<<TextMessage("system", "t1")>>)
        /\ "messages" \in calls[p].args.merge
        /\ calls[p].validated.messages = List(<<TextMessage("user", "t2")>>)

\* Date tuples in lexicographic order.
DateLE(a, b) ==
    \/ a[1] < b[1]
    \/ a[1] = b[1] /\ a[2] < b[2]
    \/ a[1] = b[1] /\ a[2] = b[2] /\ a[3] <= b[3]

\* C19: for every alias A of the registry, resolve(A) returns A's
\* most_recent_model, which is one of A's versioned ids and has the maximal
\* extracted (year, month, day) tuple among them; "gpt-4o" resolves to its
\* 12-17-24 id.
C19_AliasResolvesToMostRecent ==
    (lookup.op = "resolve_model_name" /\ lookup.inp \in Aliases) =>
        LET A == lookup.inp
            ids == Elements(MODEL_DEFINITIONS[A]["model_ids"])
        IN  /\ lookup.result.ok
            /\ lookup.result.value = MODEL_DEFINITIONS[A]["most_recent_model"]
            /\ lookup.result.value \in ids
            /\ \A id \in ids :
                   DateLE(extract_date(id, A),
                          extract_date(lookup.result.value, A))
            /\ A = "gpt-4o" => lookup.result.value = "gpt-4o-12-17-24"

\* C19 witness: "gpt-4o" was resolved to the id dated 12-17-24, whose
\* extracted tuple is (2024, 12, 17).
C19_Witness ==
    /\ lookup.op = "resolve_model_name"
    /\ lookup.inp = "gpt-4o"
    /\ lookup.result = Ok("gpt-4o-12-17-24")
    /\ extract_date("gpt-4o-12-17-24", "gpt-4o") = <<2024, 12, 17>>
    /\ extract_date("gpt-4o-01-15-24", "gpt-4o") = <<2024, 1, 15>>

\* C20: for every versioned id V listed under an alias of the registry,
\* resolve(V) does not fail and returns V itself.
C20_VersionedIdResolvesToItself ==
    (lookup.op = "resolve_model_name" /\ lookup.inp \in VersionedIds) =>
        /\ lookup.result.ok
        /\ lookup.result.value = lookup.inp

\* C21: resolving, or looking up the provider of, a token that is neither an
\* alias nor a versioned id of the registry fails with the unknown-model
\* error (the ValueError raised after the search) and with no other kind of
\* error, and returns nothing.
C21_UnknownTokenIsUnknownModelError ==
    (/\ lookup.op \in {"resolve_model_name", "get_provider"}
     /\ lookup.inp \notin Aliases \cup VersionedIds) =>
        /\ ~lookup.result.ok
        /\ lookup.result.error.type = "ValueError"

\* The suffix of a model id: what follows the alias, without leading hyphens.
Suffix(model, alias) == lstrip(DropFirst(Chars(model), Len(Chars(alias))))

\* The suffix is three hyphen-separated numeric parts.
ThreeNumericParts(suffix) ==
    /\ Len(split(suffix)) = 3
    /\ \A i \in 1..3 : IsDigits(split(suffix)[i])

\* The suffix is an eight-digit block.
EightDigits(suffix) == Len(suffix) = 8 /\ IsDigits(suffix)

\* The date the two formats stand for.
FormatDate(suffix) ==
    IF ThreeNumericParts(suffix)
    THEN <<2000 + DigitsValue(split(suffix)[3]),
           DigitsValue(split(suffix)[1]),
           DigitsValue(split(suffix)[2])>>
    ELSE IF EightDigits(suffix)
    THEN <<DigitsValue(SubSeq(suffix, 1, 4)),
           DigitsValue(SubSeq(suffix, 5, 6)),
           DigitsValue(SubSeq(suffix, 7, 8))>>
    ELSE <<0, 0, 0>>

\* C22: extract_date (both the runtime function and the generator's)
\* returns (2000+YY, MM, DD) for a suffix of three hyphen-separated numeric
\* parts, (YYYY, MM, DD) for an eight-digit suffix and (0,0,0) for every
\* other suffix; and the generator chooses an id whose date is (0,0,0) as
\* most recent only when it is the only id listed under its alias.
C22_ExtractDateFormats ==
    /\ lookup.op \in {"extract_date", "script_extract_date"} =>
           lookup.result.value = FormatDate(Suffix(lookup.inp, lookup.alias))
    /\ (/\ lookup.op = "most_recent_model"
        /\ lookup.result.ok
        /\ script_extract_date(lookup.result.value, lookup.alias) =
               <<0, 0, 0>>) =>
           Len(lookup.inp) = 1

\* The positions of model_ids whose extracted date no other id exceeds.
LatestPositions(model_ids, alias) ==
    {i \in 1..Len(model_ids) :
        \A j \in 1..Len(model_ids) :
            ~TupleLess(script_extract_date(model_ids[i], alias),
                       script_extract_date(model_ids[j], alias))}

\* The same ids listed in another order.
Reorderings(model_ids) ==
    {[i \in 1..Len(model_ids) |-> model_ids[f[i]]] :
        f \in Permutations(1..Len(model_ids))}

\* C23 as stated: the most recent id of an alias does not depend on the
\* order in which its ids are listed, also when ids have equal dates.
C23_TieBreakIgnoresListingOrder ==
    (lookup.op = "most_recent_model" /\ lookup.result.ok) =>
        \A other \in Reorderings(lookup.inp) :
            most_recent_model(other, lookup.alias) = lookup.result

\* C23, amended: among the ids of an alias that share the latest extracted
\* date, the most recent id is the one listed last; the id strings are not
\* compared.
C23_LastListedOfLatestWins ==
    (lookup.op = "most_recent_model" /\ lookup.result.ok) =>
        LET latest == LatestPositions(lookup.inp, lookup.alias)
            last == CHOOSE i \in latest : \A j \in latest : j <= i
        IN  lookup.result.value = lookup.inp[last]

\* C23 witness: two different ids with the same date are listed, the one
\* listed last is chosen, and listing them the other way round chooses the
\* other one.
C23_Witness ==
    /\ lookup.op = "most_recent_model"
    /\ Len(lookup.inp) = 2
    /\ lookup.inp[1] # lookup.inp[2]
    /\ script_extract_date(lookup.inp[1], lookup.alias) = <<2024, 12, 1>>
    /\ script_extract_date(lookup.inp[2], lookup.alias) = <<2024, 12, 1>>
    /\ lookup.result = Ok(lookup.inp[2])
    /\ most_recent_model(<<lookup.inp[2], lookup.inp[1]>>, lookup.alias) =
           Ok(lookup.inp[1])

\* The call of p is one of the four public operations.
IsCall(p) == calls[p].args.op \in Ops

\* C24: a successful call returns (response, usage, cost) with usage
\* non-null exactly when usage was requested and cost non-null exactly when
\* cost was requested; with neither requested nothing is computed (so the
\* token counts are not even read), and a requested cost is the one the
\* same response gives when usage and cost are both requested.
C24_UsageAndCostAsRequested ==
    \A p \in Procs :
        /\ (IsCall(p) /\ calls[p].pc = "done") =>
               LET call == calls[p]
                   both == process_response(call.response, call.outcome.latency,
                                            EffectiveModel(p), TRUE, TRUE)
               IN  /\ call.response.choices = call.outcome.choices
                   /\ IsNone(call.usage) <=> ~call.args.return_usage
                   /\ IsNone(call.cost) <=> ~call.args.return_cost
                   /\ call.args.return_cost =>
                          both.ok /\ call.cost = both.value[3]
                   /\ call.args.return_usage =>
                          /\ call.usage.prompt_tokens =
                                 call.outcome.usage.prompt_tokens
                          /\ call.usage.completion_tokens =
                                 call.outcome.usage.completion_tokens
        /\ (IsCall(p) /\ calls[p].failed_in = "accounting") =>
               calls[p].args.return_usage \/ calls[p].args.return_cost

\* C24 witness: a call that asked for the cost alone got a cost above zero
\* and no usage.
C24_Witness ==
    \E p \in Procs :
        /\ IsCall(p) /\ calls[p].pc = "done"
        /\ ~calls[p].args.return_usage /\ calls[p].args.return_cost
        /\ IsNone(calls[p].usage)
        /\ ~IsNone(calls[p].cost)
        /\ calls[p].cost.total_cost > 0

\* The pricing entry of a model; none for a model outside the table.
PricingOf(model_name) ==
    IF model_name \in DOMAIN MODEL_PRICING
    THEN MODEL_PRICING[model_name]
    ELSE Pricing(0, 0, 0)

\* C25: each category cost is tokens * price_per_million / 1,000,000 and
\* total_cost is the sum of the three; doubling prompt_tokens doubles
\* prompt_cost; a model priced 0.0 or without a pricing entry costs 0;
\* 1,000,000 prompt, 0 cached and 100,000 output tokens at 2.5 / 1.25 / 10
\* cost 3.5; no call fails over its price. (Costs and prices are in
\* quarters, so the division by a million is in the unit: 3.5 dollars are
\* 3.5 * PriceUnitsPerDollar * ONE_MILLION_TOKENS.)
C25_CostIsLinearAndAdditive ==
    \A p \in Procs :
      /\ (IsCall(p) /\ calls[p].failed_in = "accounting") =>
             \/ IsNone(calls[p].outcome.usage)
             \/ IsNone(calls[p].outcome.usage.prompt_tokens_details)
      /\ (IsCall(p) /\ calls[p].pc = "done" /\ ~IsNone(calls[p].cost)) =>
            LET cost == calls[p].cost
                counts == calls[p].outcome.usage
                price == PricingOf(EffectiveModel(p))
                doubled == [AIUsage(calls[p].response, 1).value EXCEPT
                               !.prompt_tokens = 2 * @]
            IN  /\ cost.prompt_cost =
                       counts.prompt_tokens * price.prompt_tokens
                /\ cost.cached_prompt_cost =
                       counts.prompt_tokens_details.cached_tokens *
                       price.cached_prompt_tokens
                /\ cost.output_cost =
                       counts.completion_tokens * price.output_tokens
                /\ cost.total_cost = cost.prompt_cost +
                       cost.cached_prompt_cost + cost.output_cost
                /\ track_model_cost(EffectiveModel(p), doubled).prompt_cost =
                       2 * cost.prompt_cost
                /\ (price = Pricing(0, 0, 0)) => cost.total_cost = 0
                /\ (/\ price = Pricing(10, 5, 40)
                    /\ counts.prompt_tokens = 1000000
                    /\ counts.prompt_tokens_details.cached_tokens = 0
                    /\ counts.completion_tokens = 100000) =>
                       10 * cost.total_cost =
                           35 * PriceUnitsPerDollar * ONE_MILLION_TOKENS

\* C25 witness: the example, a gpt-4o call with 1,000,000 prompt, 0 cached
\* and 100,000 output tokens, was priced at 3.5 dollars.
C25_Witness ==
    \E p \in Procs :
        /\ IsCall(p) /\ calls[p].pc = "done"
        /\ EffectiveModel(p) = "gpt-4o"
        /\ calls[p].outcome.usage =
               CompletionUsage(1000000, PromptTokensDetails(0), 100000)
        /\ ~IsNone(calls[p].cost)
        /\ calls[p].cost.prompt_cost = 10000000
        /\ calls[p].cost.output_cost = 4000000
        /\ calls[p].cost.total_cost = 14000000

\* How many of the three messaging sets hold the name.
MessagingSets(name, system, developer, only_user) ==
    Cardinality({k \in {"system", "developer", "only_user"} :
        \/ k = "system" /\ name \in system
        \/ k = "developer" /\ name \in developer
        \/ k = "only_user" /\ name \in only_user})

\* C26: every model name of the capability tables, alias or versioned id, is
\* in exactly one of the system-message, developer-message and user-only
\* sets, and the three sets hold registry names only; the generator of the
\* tables puts the names of a model with one of the two flags on that
\* flag's list alone, and the names of a model with neither flag on the
\* user-only list alone.
C26_MessagingSetsPartition ==
    /\ \A name \in ModelName :
           MessagingSets(name, SYSTEM_MESSAGE_SUPPORTED_MODELS,
                         DEVELOPER_MESSAGE_SUPPORTED_MODELS,
                         ONLY_USER_MESSAGE_SUPPORTED_MODELS) = 1
    /\ SYSTEM_MESSAGE_SUPPORTED_MODELS \cup
           DEVELOPER_MESSAGE_SUPPORTED_MODELS \cup
           ONLY_USER_MESSAGE_SUPPORTED_MODELS = ModelName
    /\ lookup.op = "message_support" =>
           \A i \in 1..Len(lookup.inp) :
               LET m == lookup.inp[i]
                   lists == lookup.result.value
               IN  ~(m.developer_message /\ m.system_message) =>
                       \A name \in NamesOf(m) :
                           /\ MessagingSets(name,
                                  lists.system_message_models,
                                  lists.developer_message_models,
                                  lists.only_user_message_models) = 1
                           /\ name \in lists.only_user_message_models <=>
                                  (~m.developer_message /\ ~m.system_message)
                           /\ name \in lists.system_message_models <=>
                                  m.system_message
                           /\ name \in lists.developer_message_models <=>
                                  m.developer_message

\* C26 witness: the generator was run on gpt-4o with system messages and
\* o1-mini with neither flag, and listed them as the shipped tables do.
C26_Witness ==
    /\ lookup.op = "message_support"
    /\ Len(lookup.inp) = 2
    /\ lookup.inp[1].alias = "gpt-4o" /\ lookup.inp[2].alias = "o1-mini"
    /\ lookup.inp[1].system_message /\ ~lookup.inp[1].developer_message
    /\ ~lookup.inp[2].system_message /\ ~lookup.inp[2].developer_message
    /\ lookup.result.value.system_message_models =
           SYSTEM_MESSAGE_SUPPORTED_MODELS \cap NamesOf(lookup.inp[1])
    /\ lookup.result.value.only_user_message_models =
           NamesOf(lookup.inp[2])
    /\ NamesOf(lookup.inp[2]) \subseteq ONLY_USER_MESSAGE_SUPPORTED_MODELS
    /\ lookup.result.value.developer_message_models = {}

\* The default parameters of a client.
Defaults(client) ==
    [model_name |-> client.model_name, tools |-> client.tools,
     tool_choice |-> client.tool_choice,
     reasoning_effort |-> client.reasoning_effort, user |-> client.user]

\* The runtime parameters of the call of p.
RuntimeOf(p) ==
    [messages |-> calls[p].args.messages,
     model |-> calls[p].args.kwargs.model,
     user |-> calls[p].args.kwargs.user,
     tools |-> calls[p].args.kwargs.tools,
     tool_choice |-> calls[p].args.kwargs.tool_choice,
     reasoning_effort |-> calls[p].args.kwargs.reasoning_effort,
     structured_model |-> calls[p].args.kwargs.structured_model,
     extra |-> calls[p].args.kwargs.extra]

\* The parameters of the call of p are those its own arguments give with
\* the defaults the client has.
ParamsFromDefaults(p) ==
    LET self == clients[calls[p].c]
        merged == _merge_parameters(self, RuntimeOf(p), calls[p].args.merge)
        prepared == _prepare_params_for_provider(
                        self, merged.value, calls[p].args.structured_model)
    IN  /\ calls[p].params =
               IF merged.ok
               THEN [t |-> "BaseLLMCallParams", v |-> merged.value]
               ELSE None
        /\ (merged.ok /\ prepared.ok) =>
               calls[p].validated = prepared.value.validated
        /\ ~(merged.ok /\ prepared.ok) => calls[p].pc = "failed"

\* C27: no step of a run, run_async, run_structured or run_structured_async
\* call changes the default parameters of a client (model, tools,
\* tool_choice, reasoning_effort, user), so they stay as constructed; and
\* the parameters of every call are those its own arguments give with these
\* defaults, whatever calls came before.
C27_CallsLeaveDefaults ==
    /\ [][\A c \in Clients :
              Defaults(clients[c])' = Defaults(clients[c])]_vars
    /\ [](\A p \in Procs : IsCall(p) => ParamsFromDefaults(p))

\* C27 witness: a call that merged its tools with the defaults has
\* finished, a later call on the same client without tools of its own got
\* the default tools alone, and the client still has the tools it was
\* constructed with.
C27_Witness ==
    \E p, q \in Procs :
        /\ p # q /\ calls[p].c = calls[q].c
        /\ calls[p].pc = "done" /\ calls[q].pc = "done"
        /\ calls[q].pre.use_async /\ ~IsAsync(calls[q].args.op)
        /\ IsAsync(calls[p].args.op)
        /\ "tools" \in calls[p].args.merge
        /\ calls[p].params.v.tools = List(<<Tool("a"), Tool("c")>>)
        /\ IsNone(calls[q].args.kwargs.tools)
        /\ calls[q].params.v.tools = List(<<Tool("a")>>)
        /\ clients[calls[p].c].tools = List(<<Tool("a")>>)

\* The positions of the instruction-role messages of a list.
InstructionPositions(msgs) ==
    Positions(msgs, "system") \cup Positions(msgs, "developer")

\* The model takes an instruction message of the given role.
SupportsRole(model, role) ==
    CASE role = "system" -> model \in SYSTEM_MESSAGE_SUPPORTED_MODELS
      [] role = "developer" -> model \in DEVELOPER_MESSAGE_SUPPORTED_MODELS
      [] OTHER -> TRUE

\* C28: the message list normalize returns holds at most one message of an
\* instruction role (system or developer), and the model of the call takes
\* that role: no system message for a model outside the system table, no
\* developer message for a model outside the developer table, and neither
\* for a model that takes user messages only.
C28_OutputRolesSupported ==
    \A p \in Procs :
        (IsCall(p) /\ calls[p].pc \in {"executing", "done"}) =>
            LET out == calls[p].validated.messages.v
                model == EffectiveModel(p)
            IN  /\ Cardinality(InstructionPositions(out)) <= 1
                /\ \A i \in 1..Len(out) : SupportsRole(model, out[i].role)
                /\ model \in ONLY_USER_MESSAGE_SUPPORTED_MODELS =>
                       InstructionPositions(out) = {}

\* C28 witness: a conversation with a developer message was normalized for
\* a model that takes user messages only, and the list returned holds no
\* instruction-role message.
C28_Witness ==
    \E p \in Procs :
        /\ calls[p].pc = "executing"
        /\ EffectiveModel(p) \in ONLY_USER_MESSAGE_SUPPORTED_MODELS
        /\ Len(InputMessages(p)) = 2
        /\ InputMessages(p)[1].role = "developer"
        /\ calls[p].validated.messages.v[1].role = "user"
        /\ InstructionPositions(calls[p].validated.messages.v) = {}

\* The features a client can hold as a default.
DefaultFeatures == {"reasoning_effort", "tools"}

\* The call of p has feature f from the defaults of its client alone, and
\* names a model of its own.
FromDefaultsOnModelOfCall(p, f) ==
    /\ IsCall(p) /\ calls[p].pc # "idle"
    /\ ~IsNone(calls[p].args.kwargs.model)
    /\ IsNone(calls[p].args.kwargs[f])
    /\ ~IsNone(calls[p].pre[f])

\* C29: a call that overrides the model and takes reasoning_effort or tools
\* from the defaults of its client alone is tested against the model of the
\* call: when that model does not support the feature, the call fails
\* before the transport is invoked, and with the feature's not-supported
\* error naming the model of the call when nothing else in it is invalid.
C29_DefaultsGatedOnEffectiveModel ==
    \A p \in Procs : \A f \in DefaultFeatures :
        (FromDefaultsOnModelOfCall(p, f) /\
         calls[p].args.kwargs.model.v \notin SupportedModels(f)) =>
            /\ calls[p].pc = "failed"
            /\ calls[p].transport_calls = 0
            /\ calls[p].error.type \in ValidationErrors
            /\ OnlyFault(p, f) =>
                   /\ calls[p].error.type = FeatureError(f)
                   /\ calls[p].error.model = calls[p].args.kwargs.model.v

\* C29 witness: a client with default model "o1", which supports reasoning
\* effort, and default effort "high" was called with model "o1-mini" and no
\* effort of its own; the call has raised
\* ReasoningEffortNotSupportedError without invoking the transport.
C29_Witness ==
    \E p \in Procs :
        /\ FromDefaultsOnModelOfCall(p, "reasoning_effort")
        /\ calls[p].pre.model_name = Str("o1")
        /\ "o1" \in REASONING_EFFORT_SUPPORTED_MODELS
        /\ calls[p].args.kwargs.model = Str("o1-mini")
        /\ IsNone(calls[p].pre.tools)
        /\ calls[p].pc = "failed"
        /\ calls[p].error.type = "ReasoningEffortNotSupportedError"
        /\ calls[p].transport_calls = 0

\* C30: in the validated parameters of every call, a tool_choice other
\* than None comes with a tools list that is present and not empty; with an
\* empty tools list the tool_choice is None.
C30_ToolChoiceNeedsTools ==
    \A p \in Procs :
        (IsCall(p) /\ calls[p].pc \in {"executing", "done"}) =>
            LET tools == calls[p].validated.tools
                choice == calls[p].validated.tool_choice
            IN  /\ ~IsNone(choice) => (IsList(tools) /\ Len(tools.v) > 0)
                /\ tools = List(<<>>) => IsNone(choice)

====
